---- MODULE Spec2Model ----
(***************************************************************************)
(* A model of the sentinel-golang core: the slot chain (core/base),       *)
(* the statistic slot and the flow slot (core/stat, core/flow), the       *)
(* LeapArray bucket ring (core/stat/base) and the metric log aggregator  *)
(* (core/log/metric), and the go-micro client wrapper (pkg/adapters).    *)
(*                                                                         *)
(* Several specifications share the module:                               *)
(*   Spec          the slot chain driven by entries and exits             *)
(*   SpecStat      the default chain behind a user prepare slot           *)
(*   SpecFlow      the default chain with flow rules loaded               *)
(*   SpecFlowSlot  flow.Slot.Check on controllers of any kind             *)
(*   SpecRing      one LeapArray used by concurrent goroutines            *)
(*   SpecValues    the ring read while buckets are written                *)
(*   SpecAgg       the aggregation tick and the flush loop                *)
(*   SpecAggFull   the aggregator under steady load with a stalled flush  *)
(*   SpecAggWrite  the aggregator with a writer whose Write may fail       *)
(*   SpecRingFair  SpecRing with every goroutine scheduled fairly          *)
(*   SpecMicro     calls through the micro client wrapper                  *)
(***************************************************************************)
EXTENDS Integers, Sequences, FiniteSets, TLC

VARIABLES
    \* ---- slot chain (core/base/slot_chain.go) ----
    statPres,     \* SlotChain.statPres: sequence of prepare slots
    ruleChecks,   \* SlotChain.ruleChecks: sequence of rule-check slots
    stats,        \* SlotChain.stats: sequence of stat slots
    ctxs,         \* the EntryContext of every entry
    nodes,        \* the counters of every statistics node
    clock,        \* util.CurrentTimeMillis() as seen by the chain
    \* ---- flow rules (core/flow) ----
    tcMap,        \* per resource the TrafficShapingControllers, in registration order
    flowWaitCount,\* the flow_wait_total counter, per resource
    nano,         \* util.CurrentTimeNano() as seen by the flow slot
    flowLog,      \* history: what every flow.Slot.Check call did, in order
    \* ---- bucket ring (LeapArray) ----
    la,           \* the LeapArray parameters: sampleCount, intervalInMs, bucketLengthInMs
    array,        \* AtomicBucketWrapArray.data: per slot the BucketStart and the payload
    updateLock,   \* LeapArray.updateLock: FALSE, or TRUE while a goroutine holds it
    gs,           \* per goroutine: the position in currentBucketOfTime and its locals
    rd,           \* the reader running valuesWithTime / ValuesConditional
    \* ---- metric aggregator (core/log/metric/aggregator.go) ----
    lastFetchTime,
    writeChan,
    aggPc,        \* the aggregation task: "idle", or "send" while blocked in writeChan <- maps
    aggMaps,      \* the map doAggregate is sending
    aggNow,       \* util.CurrentTimeMillis() as seen by the aggregator
    buckets,      \* per node the second-aligned buckets its metric ring holds
    published,    \* history: every (timestamp, node) item put on writeChan, in order
    written       \* history: the MetricLogWriter.Write calls, in order

chainVars == <<statPres, ruleChecks, stats, ctxs, nodes, clock>>
ringVars  == <<la, array, updateLock, gs, rd>>
aggVars   == <<lastFetchTime, writeChan, aggPc, aggMaps, aggNow, buckets, published, written>>
flowVars  == <<tcMap, flowWaitCount, nano, flowLog>>
vars      == <<chainVars, ringVars, aggVars, flowVars>>

(***************************************************************************)
(*                              SLOT CHAIN                                 *)
(***************************************************************************)

\* Bounds of the chain model.
MaxSlots == 2      \* prepare slots and stat slots of a chain
MaxChecks == 3     \* rule-check slots of a chain
MaxBatch == 2      \* Input.BatchCount is drawn from 1..MaxBatch
MaxClock == 1      \* the chain's clock runs over 0..MaxClock

StatSlotOrder == 1000
RuleCheckSlotOrder == 2000

\* The slots that can be registered.  A slot is a name and its Order().
\* "stat.ResourceNodePrepareSlot" attaches the StatNode, "stat.Slot" is the
\* statistic slot of core/stat, "flow.Slot" the flow rule-check slot; the
\* others are user slots.
PrepareSlotSet == { [name |-> "stat.ResourceNodePrepareSlot", order |-> 1000],
                    [name |-> "userPrepare", order |-> 500] }
RuleCheckSlotSet == { [name |-> "flow.Slot", order |-> RuleCheckSlotOrder],
                      [name |-> "userCheck", order |-> 1000] }
StatSlotSet == { [name |-> "stat.Slot", order |-> StatSlotOrder],
                 [name |-> "userStat", order |-> 500] }

Order(s) == s.order

Entries == {"e1", "e2"}
Resources == {"A", "B"}
InboundNodeName == "inbound"
NodeNames == Resources \cup {InboundNodeName}

\* sort.SliceStable with less(i, j) == Order(i) < Order(j): a stable insertion sort.
RECURSIVE InsertStable(_, _)
InsertStable(sorted, s) ==
    IF sorted = <<>> THEN <<s>>
    ELSE IF Order(s) < Order(sorted[Len(sorted)])
         THEN Append(InsertStable(SubSeq(sorted, 1, Len(sorted) - 1), s), sorted[Len(sorted)])
         ELSE Append(sorted, s)

RECURSIVE SliceStable(_)
SliceStable(seq) ==
    IF seq = <<>> THEN <<>>
    ELSE InsertStable(SliceStable(SubSeq(seq, 1, Len(seq) - 1)), seq[Len(seq)])

\* TokenResult.IsBlocked
IsBlocked(sr) == sr = "Blocked"

\* One callback of a slot as the chain saw it.
Ev(cb, i, out) == [cb |-> cb, i |-> i, out |-> out]

\* Entry, lines 174-179: the prepare slots in order; a panic unwinds the loop.
RECURSIVE PrepareFrom(_, _, _)
PrepareFrom(i, sps, pb) ==
    IF i > Len(sps) THEN [log |-> <<>>, panic |-> FALSE]
    ELSE IF pb[i] = "panic" THEN [log |-> <<Ev("Prepare", i, "panic")>>, panic |-> TRUE]
    ELSE LET r == PrepareFrom(i + 1, sps, pb)
         IN  [log |-> <<Ev("Prepare", i, "ok")>> \o r.log, panic |-> r.panic]

\* CheckFrom without the break at line 194: the loop goes on after a Blocked result.
RECURSIVE CheckFromNoBreak(_, _, _)
CheckFromNoBreak(i, rcs, cb) ==
    IF i > Len(rcs) THEN [log |-> <<>>, panic |-> FALSE, ret |-> "nil"]
    ELSE IF cb[i] = "panic"
         THEN [log |-> <<Ev("Check", i, "panic")>>, panic |-> TRUE, ret |-> "nil"]
    ELSE LET r == CheckFromNoBreak(i + 1, rcs, cb)
         IN  [log |-> <<Ev("Check", i, cb[i])>> \o r.log, panic |-> r.panic,
              ret |-> IF cb[i] # "nil" /\ IsBlocked(cb[i]) THEN cb[i] ELSE r.ret]

\* Entry, lines 182-197: the rule-check slots in order.  ret is ruleCheckRet:
\* "nil" until a slot returns a blocked result.
RECURSIVE CheckFrom(_, _, _)
CheckFrom(i, rcs, cb) ==
    IF i > Len(rcs) THEN [log |-> <<>>, panic |-> FALSE, ret |-> "nil"]
    ELSE IF cb[i] = "panic"
         THEN [log |-> <<Ev("Check", i, "panic")>>, panic |-> TRUE, ret |-> "nil"]
    ELSE IF cb[i] # "nil" /\ IsBlocked(cb[i])
         THEN [log |-> <<Ev("Check", i, cb[i])>>, panic |-> FALSE, ret |-> cb[i]]
    ELSE LET r == CheckFrom(i + 1, rcs, cb)
         IN  [log |-> <<Ev("Check", i, cb[i])>> \o r.log, panic |-> r.panic, ret |-> r.ret]

\* Entry, lines 205-217: every stat slot gets OnEntryPassed or OnEntryBlocked.
RECURSIVE StatFrom(_, _, _, _)
StatFrom(i, ss, sb, ruleCheckRet) ==
    IF i > Len(ss) THEN [log |-> <<>>, panic |-> FALSE]
    ELSE LET cb == IF ~IsBlocked(ruleCheckRet) THEN "OnEntryPassed" ELSE "OnEntryBlocked"
         IN  IF sb[i] = "panic" THEN [log |-> <<Ev(cb, i, "panic")>>, panic |-> TRUE]
             ELSE LET r == StatFrom(i + 1, ss, sb, ruleCheckRet)
                  IN  [log |-> <<Ev(cb, i, "ok")>> \o r.log, panic |-> r.panic]

\* Entry, lines 165-171: the deferred recover.  recover() returns the panic
\* value; with the Go releases the build uses (1.18, 1.19) panic(nil) makes it
\* return nil, so the branch that records the error is skipped.  Entry then
\* returns the zero value of its result, nil.
Recovered(c, log, pv) ==
    [c EXCEPT !.err = IF pv # "nil" THEN TRUE ELSE c.err,
              !.ret = "nil", !.log = log, !.panicked = TRUE]

\* SlotChain.Entry, lines 162-219.  pb, cb and sb are what each prepare,
\* rule-check and stat slot does when called; pv is the value a panic carries.
SlotChainEntry(c, sps, rcs, ss, pb, cb, sb, pv) ==
    LET p == PrepareFrom(1, sps, pb)
        c1 == [c EXCEPT !.StatNode =
                  IF \E i \in 1..Len(p.log) :
                        /\ p.log[i].out = "ok"
                        /\ sps[p.log[i].i].name = "stat.ResourceNodePrepareSlot"
                  THEN c.res ELSE "nil"]
    IN  IF p.panic THEN Recovered(c1, p.log, pv)
        ELSE LET k == CheckFrom(1, rcs, cb)
             IN  IF k.panic THEN Recovered(c1, p.log \o k.log, pv)
                 ELSE LET rcr == IF k.ret = "nil" THEN "Pass" ELSE k.ret
                          c2 == [c1 EXCEPT !.RuleCheckResult = rcr]
                          s == StatFrom(1, ss, sb, rcr)
                          log == p.log \o k.log \o s.log
                      IN  IF s.panic THEN Recovered(c2, log, pv)
                          ELSE [c2 EXCEPT !.ret = rcr, !.log = log]

\* The slot appended with the sort left out.
AppendUnsorted(list, s) == Append(list, s)

\* SlotChain.AddStatPrepareSlot / AddRuleCheckSlot / AddStatSlot: append, then
\* sort.SliceStable by Order().
AppendSorted(list, s) == SliceStable(Append(list, s))

(***************************************************************************)
(* The statistic slot of core/stat.                                        *)
(***************************************************************************)
ZeroNode == [pass |-> 0, block |-> 0, complete |-> 0, error |-> 0, rt |-> 0, concurrency |-> 0]

\* StatNode.AddCount and Increase/DecreaseConcurrency are atomic adds.
RecordPassFor(ns, sn, count) ==
    IF sn = "nil" THEN ns
    ELSE [ns EXCEPT ![sn].concurrency = @ + 1, ![sn].pass = @ + count]

\* recordBlockFor that counts one per blocked entry, whatever its batch.
RecordBlockOne(ns, sn, count) ==
    IF sn = "nil" THEN ns
    ELSE [ns EXCEPT ![sn].block = @ + 1]

RecordBlockFor(ns, sn, count) ==
    IF sn = "nil" THEN ns
    ELSE [ns EXCEPT ![sn].block = @ + count]

RecordCompleteFor(ns, sn, count, rt, err) ==
    IF sn = "nil" THEN ns
    ELSE [ns EXCEPT ![sn].error = IF err THEN @ + count ELSE @,
                    ![sn].rt = @ + rt,
                    ![sn].complete = @ + count,
                    ![sn].concurrency = @ - 1]

StatOnEntryPassed(ns, c) ==
    LET n1 == RecordPassFor(ns, c.StatNode, c.batch)
    IN  IF c.flow = "Inbound" THEN RecordPassFor(n1, InboundNodeName, c.batch) ELSE n1

StatOnEntryBlocked(ns, c) ==
    LET n1 == RecordBlockFor(ns, c.StatNode, c.batch)
    IN  IF c.flow = "Inbound" THEN RecordBlockFor(n1, InboundNodeName, c.batch) ELSE n1

StatOnCompleted(ns, c, now) ==
    LET rt == now - c.startTime
        n1 == RecordCompleteFor(ns, c.StatNode, c.batch, rt, c.err)
    IN  IF c.flow = "Inbound"
        THEN RecordCompleteFor(n1, InboundNodeName, c.batch, rt, c.err) ELSE n1

\* The effect on the nodes of the callbacks that log[from..] records: only the
\* statistic slot touches the nodes, and only a callback that returned did.
RECURSIVE ApplyLog(_, _, _, _, _, _)
ApplyLog(ns, c, ss, log, from, now) ==
    IF from > Len(log) THEN ns
    ELSE LET ev == log[from]
             hit == /\ ev.cb \in {"OnEntryPassed", "OnEntryBlocked", "OnCompleted"}
                    /\ ev.out = "ok"
                    /\ ss[ev.i].name = "stat.Slot"
             n1 == IF ~hit THEN ns
                   ELSE IF ev.cb = "OnEntryPassed" THEN StatOnEntryPassed(ns, c)
                   ELSE IF ev.cb = "OnEntryBlocked" THEN StatOnEntryBlocked(ns, c)
                   ELSE StatOnCompleted(ns, c, now)
         IN  ApplyLog(n1, c, ss, log, from + 1, now)

\* SlotChain.exit without the IsBlocked test of line 228.
SlotChainExitAlways(c, ss) ==
    IF c.entry = FALSE THEN c
    ELSE [c EXCEPT !.log = @ \o [i \in 1..Len(ss) |-> Ev("OnCompleted", i, "ok")]]

\* SlotChain.exit, lines 221-235: nothing for a context without entry or a
\* blocked one, else OnCompleted on every stat slot.
SlotChainExit(c, ss) ==
    IF c.entry = FALSE THEN c
    ELSE IF IsBlocked(c.RuleCheckResult) THEN c
    ELSE [c EXCEPT !.log = @ \o [i \in 1..Len(ss) |-> Ev("OnCompleted", i, "ok")]]

\* SlotChain.RefurbishContext: the context is reset and goes back to the pool.
\* The fields the entry no longer reads are kept as the record of what happened.
RefurbishContext(c) == [c EXCEPT !.entry = FALSE]

\* SentinelEntry.Exit running the chain's exit on every call.
SentinelEntryExitEveryCall(c, ss) == SlotChainExit(c, ss)

\* SentinelEntry.Exit: the first call runs the chain's exit and releases the
\* context; a later call does nothing.
SentinelEntryExit(c, ss) ==
    IF c.exits >= 1 THEN c
    ELSE RefurbishContext(SlotChainExit(c, ss))

PooledContext ==
    [st |-> "pooled", res |-> "nil", flow |-> "nil", batch |-> 1, startTime |-> 0,
     StatNode |-> "nil", RuleCheckResult |-> "Pass", err |-> FALSE, entry |-> FALSE,
     ret |-> "none", log |-> <<>>, panicked |-> FALSE, exits |-> 0]

\* What a slot can do when called.  Only user slots panic.
PrepareOutcomes(s) == IF s.name = "userPrepare" THEN {"ok", "panic"} ELSE {"ok"}
CheckOutcomes(s) ==
    IF s.name = "userCheck" THEN {"nil", "Pass", "ShouldWait", "Blocked", "panic"}
    ELSE {"Pass", "Blocked"}
StatOutcomes(s) == IF s.name = "userStat" THEN {"ok", "panic"} ELSE {"ok"}
PanicValues == {"nil", "err"}

PrepareBehaviours(list) ==
    {b \in [1..Len(list) -> {"ok", "panic"}] :
        \A i \in 1..Len(list) : b[i] \in PrepareOutcomes(list[i])}
CheckBehaviours(list) ==
    {b \in [1..Len(list) -> {"nil", "Pass", "ShouldWait", "Blocked", "panic"}] :
        \A i \in 1..Len(list) : b[i] \in CheckOutcomes(list[i])}
StatBehaviours(list) ==
    {b \in [1..Len(list) -> {"ok", "panic"}] :
        \A i \in 1..Len(list) : b[i] \in StatOutcomes(list[i])}

\* The behaviours of the slots of a chain for one entry.  What a slot would do
\* is drawn only when the chain gets to call it: after a panic the remaining
\* slots are not called and are given one fixed behaviour.
AllOk(list) == [i \in 1..Len(list) |-> IF list[i] \in RuleCheckSlotSet THEN "Pass" ELSE "ok"]

EntryInputs(sps, rcs, ss) ==
    UNION { UNION { UNION {
        { [pb |-> pb, cb |-> cb, sb |-> sb, pv |-> pv] :
            pv \in IF \/ PrepareFrom(1, sps, pb).panic
                      \/ CheckFrom(1, rcs, cb).panic
                      \/ \E i \in 1..Len(ss) : sb[i] = "panic"
                   THEN PanicValues ELSE {"err"} } :
        sb \in IF PrepareFrom(1, sps, pb).panic \/ CheckFrom(1, rcs, cb).panic
               THEN {AllOk(ss)} ELSE StatBehaviours(ss) } :
        cb \in IF PrepareFrom(1, sps, pb).panic
               THEN {AllOk(rcs)} ELSE CheckBehaviours(rcs) } :
        pb \in PrepareBehaviours(sps) }

(***************************************************************************)
(* Actions of the slot chain.                                              *)
(***************************************************************************)
AddStatPrepareSlot(s) ==
    /\ \A e \in Entries : ctxs[e].st = "pooled"
    /\ Len(statPres) < MaxSlots
    /\ statPres' = AppendSorted(statPres, s)
    /\ UNCHANGED <<ruleChecks, stats, ctxs, nodes, clock, ringVars, aggVars, flowVars>>

AddRuleCheckSlot(s) ==
    /\ \A e \in Entries : ctxs[e].st = "pooled"
    /\ Len(ruleChecks) < MaxChecks
    /\ ruleChecks' = AppendSorted(ruleChecks, s)
    /\ UNCHANGED <<statPres, stats, ctxs, nodes, clock, ringVars, aggVars, flowVars>>

AddStatSlot(s) ==
    /\ \A e \in Entries : ctxs[e].st = "pooled"
    /\ Len(stats) < MaxSlots
    /\ stats' = AppendSorted(stats, s)
    /\ UNCHANGED <<statPres, ruleChecks, ctxs, nodes, clock, ringVars, aggVars, flowVars>>

\* api.Entry: take a pooled context, fill it from the options, run the chain.
\* A blocked entry is exited at once and the caller gets the block error; any
\* other result, nil included, hands the entry to the caller.
ApiEntry(e, res, flow, batch, pb, cb, sb, pv) ==
    /\ ctxs[e].st = "pooled"
    /\ LET c0 == [PooledContext EXCEPT !.res = res, !.flow = flow, !.batch = batch,
                                       !.startTime = clock, !.entry = TRUE]
           c1 == SlotChainEntry(c0, statPres, ruleChecks, stats, pb, cb, sb, pv)
           n1 == ApplyLog(nodes, c1, stats, c1.log, 1, clock)
       IN  /\ nodes' = n1
           /\ ctxs' = [ctxs EXCEPT ![e] =
                  IF IsBlocked(c1.ret)
                  THEN [SentinelEntryExit(c1, stats) EXCEPT !.st = "blocked", !.exits = 1]
                  ELSE [c1 EXCEPT !.st = "live"]]
    /\ UNCHANGED <<statPres, ruleChecks, stats, clock, ringVars, aggVars, flowVars>>

\* api.TraceError on an entry the caller holds.
TraceError(e) ==
    /\ ctxs[e].st = "live"
    /\ ctxs[e].exits = 0
    /\ ~ctxs[e].err
    /\ ctxs' = [ctxs EXCEPT ![e].err = TRUE]
    /\ UNCHANGED <<statPres, ruleChecks, stats, nodes, clock, ringVars, aggVars, flowVars>>

\* entry.Exit() by the caller; it may be called again.
Exit(e) ==
    /\ ctxs[e].st = "live"
    /\ ctxs[e].exits < 2
    /\ LET c1 == SentinelEntryExit(ctxs[e], stats)
       IN  /\ nodes' = ApplyLog(nodes, c1, stats, c1.log, Len(ctxs[e].log) + 1, clock)
           /\ ctxs' = [ctxs EXCEPT ![e] = [c1 EXCEPT !.exits = @ + 1]]
    /\ UNCHANGED <<statPres, ruleChecks, stats, clock, ringVars, aggVars, flowVars>>

Tick ==
    /\ clock < MaxClock
    /\ clock' = clock + 1
    /\ UNCHANGED <<statPres, ruleChecks, stats, ctxs, nodes, ringVars, aggVars, flowVars>>

(***************************************************************************)
(*                     FLOW RULES (core/flow)                              *)
(***************************************************************************)
MaxFlowChecks == 2   \* calls of flow.Slot.Check in a run
MaxNanoSteps == 2    \* how often the nano clock is moved on between entries

\* The nanoseconds of a second, of which a throttling rule gives each token
\* 1e9 / threshold.
NanosPerSecond == 1000000000

\* A flow.Rule: the fields the check reads.
Rule(res, threshold, behavior, relation, ref, maxQueue) ==
    [Resource |-> res, Threshold |-> threshold, ControlBehavior |-> behavior,
     RelationStrategy |-> relation, RefResource |-> ref, MaxQueueingTimeNs |-> maxQueue]

\* A TrafficShapingController: its rule and the throttling checker's
\* lastPassedTime.  isNil marks a nil entry of the controller list.
Controller(rule) == [isNil |-> FALSE, rule |-> rule, lastPassedTime |-> 0]
NilController ==
    [isNil |-> TRUE, rule |-> Rule("nil", 0, "nil", "nil", "nil", 0), lastPassedTime |-> 0]

\* The TokenResults.
ResultNil == [status |-> "nil", nanosToWait |-> 0]
ResultPass == [status |-> "Pass", nanosToWait |-> 0]
ResultBlocked == [status |-> "Blocked", nanosToWait |-> 0]
ResultShouldWait(n) == [status |-> "ShouldWait", nanosToWait |-> n]

\* What a checker that is neither Reject nor Throttling may return.
OtherResults ==
    {ResultNil, ResultPass, ResultBlocked, ResultShouldWait(0),
     ResultShouldWait(NanosPerSecond \div 10)}

\* stat.GetResourceNode: the node of a resource that has one, else nil.
GetResourceNode(name) == IF name \in NodeNames THEN name ELSE "nil"

\* The Reject checker: blocked when the passes of the window and the tokens
\* asked for exceed the threshold.
RejectChecker(tc, ns, actual, batchCount) ==
    [r |-> IF ns[actual].pass + batchCount > tc.rule.Threshold
           THEN ResultBlocked ELSE ResultPass,
     lastPassedTime |-> tc.lastPassedTime]

\* The throttling checker that lets a call wait without moving lastPassedTime.
ThrottlingCheckerNoAdvance(tc, now) ==
    LET interval == NanosPerSecond \div tc.rule.Threshold
        expected == tc.lastPassedTime + interval
    IN  IF now >= expected THEN [r |-> ResultPass, lastPassedTime |-> now]
        ELSE IF expected - now > tc.rule.MaxQueueingTimeNs
             THEN [r |-> ResultBlocked, lastPassedTime |-> tc.lastPassedTime]
             ELSE [r |-> ResultShouldWait(expected - now), lastPassedTime |-> tc.lastPassedTime]

\* The throttling checker: pass when the interval since lastPassedTime is
\* over, blocked when the wait would exceed the queueing time, else wait until
\* the expected time, which becomes lastPassedTime.
ThrottlingChecker(tc, now) ==
    LET interval == NanosPerSecond \div tc.rule.Threshold
        expected == tc.lastPassedTime + interval
    IN  IF now >= expected THEN [r |-> ResultPass, lastPassedTime |-> now]
        ELSE IF expected - now > tc.rule.MaxQueueingTimeNs
             THEN [r |-> ResultBlocked, lastPassedTime |-> tc.lastPassedTime]
             ELSE [r |-> ResultShouldWait(expected - now), lastPassedTime |-> expected]

\* TrafficShapingController.PerformChecking; o is the result of a checker of
\* another kind.
PerformChecking(tc, ns, actual, batchCount, now, o) ==
    IF tc.rule.ControlBehavior = "Reject" THEN RejectChecker(tc, ns, actual, batchCount)
    ELSE IF tc.rule.ControlBehavior = "Throttling" THEN ThrottlingChecker(tc, now)
    ELSE [r |-> o, lastPassedTime |-> tc.lastPassedTime]

\* selectNodeByRelStrategy that always takes the node of the entry.
SelectNodeOfEntry(rule, node) == node

\* selectNodeByRelStrategy, lines 88-93
SelectNodeByRelStrategy(rule, node) ==
    IF rule.RelationStrategy = "AssociatedResource"
    THEN GetResourceNode(rule.RefResource)
    ELSE node

\* checkInLocal, lines 95-104 (canPassCheck and canPassCheckWithFlag, lines
\* 80-86, only pass the call on).
CheckInLocal(tc, ns, resStat, batchCount, now, o) ==
    LET actual == SelectNodeByRelStrategy(tc.rule, resStat)
    IN  IF actual = "nil" THEN [r |-> ResultPass, lastPassedTime |-> tc.lastPassedTime]
        ELSE PerformChecking(tc, ns, actual, batchCount, now, o)

\* One controller as Check dealt with it: its result, when it was evaluated
\* and how long Check slept for it.
Evaluated(i, r, at, slept) == [i |-> i, r |-> r, at |-> at, slept |-> slept]

\* The state a run of Check carries from controller to controller.
CheckState(tcs, now, evals, waitAdded, ret) ==
    [tcs |-> tcs, now |-> now, evals |-> evals, waitAdded |-> waitAdded, ret |-> ret]

\* The loop of Check going on after a Blocked result.
RECURSIVE FlowCheckFromNoReturn(_, _, _, _, _, _, _)
FlowCheckFromNoReturn(i, st, ns, node, batchCount, ob, result) ==
    IF i > Len(st.tcs) THEN [st EXCEPT !.ret = IF @ = "none" THEN result ELSE @]
    ELSE IF st.tcs[i].isNil
         THEN FlowCheckFromNoReturn(i + 1, st, ns, node, batchCount, ob, result)
    ELSE LET k == CheckInLocal(st.tcs[i], ns, node, batchCount, st.now, ob[i])
             wait == IF k.r.status = "ShouldWait" /\ k.r.nanosToWait > 0
                     THEN k.r.nanosToWait ELSE 0
         IN  FlowCheckFromNoReturn(i + 1,
                 CheckState([st.tcs EXCEPT ![i].lastPassedTime = k.lastPassedTime],
                            st.now + wait,
                            Append(st.evals, Evaluated(i, k.r, st.now, wait)),
                            st.waitAdded + (IF wait > 0 THEN batchCount ELSE 0),
                            IF k.r.status = "Blocked" /\ st.ret = "none" THEN "Blocked" ELSE st.ret),
                 ns, node, batchCount, ob, result)

\* The loop of Check counting every ShouldWait result, a zero wait too.
RECURSIVE FlowCheckFromCountAll(_, _, _, _, _, _, _)
FlowCheckFromCountAll(i, st, ns, node, batchCount, ob, result) ==
    IF i > Len(st.tcs) THEN [st EXCEPT !.ret = result]
    ELSE IF st.tcs[i].isNil
         THEN FlowCheckFromCountAll(i + 1, st, ns, node, batchCount, ob, result)
    ELSE LET k == CheckInLocal(st.tcs[i], ns, node, batchCount, st.now, ob[i])
             tcs1 == [st.tcs EXCEPT ![i].lastPassedTime = k.lastPassedTime]
             wait == IF k.r.status = "ShouldWait" /\ k.r.nanosToWait > 0
                     THEN k.r.nanosToWait ELSE 0
         IN  IF k.r.status = "Blocked"
             THEN CheckState(tcs1, st.now, Append(st.evals, Evaluated(i, k.r, st.now, 0)),
                             st.waitAdded, "Blocked")
             ELSE FlowCheckFromCountAll(i + 1,
                      CheckState(tcs1, st.now + wait,
                                 Append(st.evals, Evaluated(i, k.r, st.now, wait)),
                                 st.waitAdded + (IF k.r.status = "ShouldWait" THEN batchCount ELSE 0),
                                 st.ret),
                      ns, node, batchCount, ob, result)

\* The loop of flow.Slot.Check, lines 55-77: nil controllers and nil results
\* are passed over, a Blocked result is returned at once, a ShouldWait result
\* with a positive wait adds batchCount to flow_wait_total and sleeps; at the
\* end the context's RuleCheckResult is returned.
RECURSIVE FlowCheckFrom(_, _, _, _, _, _, _)
FlowCheckFrom(i, st, ns, node, batchCount, ob, result) ==
    IF i > Len(st.tcs) THEN [st EXCEPT !.ret = result]
    ELSE IF st.tcs[i].isNil
         THEN FlowCheckFrom(i + 1, st, ns, node, batchCount, ob, result)
    ELSE LET k == CheckInLocal(st.tcs[i], ns, node, batchCount, st.now, ob[i])
             tcs1 == [st.tcs EXCEPT ![i].lastPassedTime = k.lastPassedTime]
             wait == IF k.r.status = "ShouldWait" /\ k.r.nanosToWait > 0
                     THEN k.r.nanosToWait ELSE 0
         IN  IF k.r.status = "Blocked"
             THEN CheckState(tcs1, st.now, Append(st.evals, Evaluated(i, k.r, st.now, 0)),
                             st.waitAdded, "Blocked")
             ELSE FlowCheckFrom(i + 1,
                      CheckState(tcs1, st.now + wait,
                                 Append(st.evals, Evaluated(i, k.r, st.now, wait)),
                                 st.waitAdded + (IF wait > 0 THEN batchCount ELSE 0),
                                 st.ret),
                      ns, node, batchCount, ob, result)

\* flow.Slot.Check, lines 49-78, for a context of resource res.
FlowSlotCheck(c, ns, ob) ==
    FlowCheckFrom(1, CheckState(tcMap[c.res], nano, <<>>, 0, "none"),
                  ns, c.StatNode, c.batch, ob, c.RuleCheckResult)

\* The results drawn for the controllers of a list: one for each controller
\* whose checker is of another kind, none for the others.
OtherBehaviours(tcs) ==
    {ob \in [1..Len(tcs) -> OtherResults] :
        \A i \in 1..Len(tcs) :
            (tcs[i].isNil \/ tcs[i].rule.ControlBehavior \in {"Reject", "Throttling"})
                => ob[i] = ResultNil}

\* What a call of flow.Slot.Check leaves behind: the controllers, the counter,
\* the clock after the sleeps, and the record of the call.
FlowChecked(res, batch, fs) ==
    /\ tcMap' = [tcMap EXCEPT ![res] = fs.tcs]
    /\ flowWaitCount' = [flowWaitCount EXCEPT ![res] = @ + fs.waitAdded]
    /\ nano' = fs.now
    /\ flowLog' = Append(flowLog,
           [res |-> res, batch |-> batch, at |-> nano, evals |-> fs.evals,
            ret |-> fs.ret, before |-> tcMap[res],
            pass |-> [n \in NodeNames |-> nodes[n].pass]])

\* flow.Slot.Check called for an entry on resource res with batch tokens.
SlotCheck(res, batch, ob) ==
    /\ Len(flowLog) < MaxFlowChecks
    /\ LET c == [PooledContext EXCEPT !.res = res, !.batch = batch, !.StatNode = res,
                                      !.entry = TRUE]
       IN  FlowChecked(res, batch, FlowSlotCheck(c, nodes, ob))
    /\ UNCHANGED <<chainVars, ringVars, aggVars>>

\* api.Entry on a chain whose flow slot checks the loaded rules: as ApiEntry,
\* with the result of flow.Slot.Check computed from the controllers.  The
\* context comes from the pool, where a released one is taken again.
FlowEntry(e, res, batch, ob) ==
    /\ ctxs[e].st # "live" \/ ctxs[e].exits >= 1
    /\ Len(flowLog) < MaxFlowChecks
    /\ LET c0 == [PooledContext EXCEPT !.res = res, !.flow = "Outbound", !.batch = batch,
                                       !.startTime = clock, !.entry = TRUE]
           fs == FlowSlotCheck([c0 EXCEPT !.StatNode = res], nodes, ob)
           cb == [i \in 1..Len(ruleChecks) |-> fs.ret]
           c1 == SlotChainEntry(c0, statPres, ruleChecks, stats,
                                AllOk(statPres), cb, AllOk(stats), "err")
       IN  /\ nodes' = ApplyLog(nodes, c1, stats, c1.log, 1, clock)
           /\ ctxs' = [ctxs EXCEPT ![e] =
                  IF IsBlocked(c1.ret)
                  THEN [SentinelEntryExit(c1, stats) EXCEPT !.st = "blocked", !.exits = 1]
                  ELSE [c1 EXCEPT !.st = "live"]]
           /\ FlowChecked(res, batch, fs)
    /\ UNCHANGED <<statPres, ruleChecks, stats, clock, ringVars, aggVars>>

\* Time goes by between two entries.
AdvanceNano ==
    /\ nano < NanosPerSecond + MaxNanoSteps * (NanosPerSecond \div 10)
    /\ nano' = nano + NanosPerSecond \div 10
    /\ UNCHANGED <<chainVars, ringVars, aggVars, tcMap, flowWaitCount, flowLog>>

\* The rules loaded on resource A by flow.LoadRules; resource B has none.
RuleSets ==
    { <<Controller(Rule("A", 0, "Reject", "CurrentResource", "", 0))>>,
      <<Controller(Rule("A", 1, "Reject", "AssociatedResource", "B", 0))>>,
      <<Controller(Rule("A", 0, "Reject", "AssociatedResource", "C", 0))>>,
      <<Controller(Rule("A", 10, "Throttling", "CurrentResource", "", NanosPerSecond \div 10))>>,
      <<Controller(Rule("A", 5, "Throttling", "CurrentResource", "", NanosPerSecond \div 10))>>,
      <<Controller(Rule("A", 10, "Throttling", "CurrentResource", "", 0)),
        Controller(Rule("A", 2, "Reject", "CurrentResource", "", 0))>> }

\* Rules whose checkers are of another kind, with a nil entry between them.
OtherRuleSets ==
    { <<Controller(Rule("A", 1, "Other", "CurrentResource", "", 0)),
        NilController,
        Controller(Rule("A", 1, "Other", "CurrentResource", "", 0))>> }

\* The chain, the nodes and the flow state with the rule set tcs loaded on A.
FlowInitWith(tcs) ==
    /\ statPres = <<[name |-> "stat.ResourceNodePrepareSlot", order |-> 1000]>>
    /\ ruleChecks = <<[name |-> "flow.Slot", order |-> RuleCheckSlotOrder]>>
    /\ stats = <<[name |-> "stat.Slot", order |-> StatSlotOrder]>>
    /\ ctxs = [e \in Entries |-> PooledContext]
    /\ nodes = [n \in NodeNames |-> ZeroNode]
    /\ clock = 0
    /\ tcMap = [r \in Resources |-> IF r = "A" THEN tcs ELSE <<>>]
    /\ flowWaitCount = [r \in Resources |-> 0]
    /\ nano = NanosPerSecond
    /\ flowLog = <<>>

\* The default chain (node prepare slot, flow slot, statistic slot) with one
\* of the rule sets loaded.
FlowInit == \E tcs \in RuleSets : FlowInitWith(tcs)
FlowSlotInit == \E tcs \in OtherRuleSets : FlowInitWith(tcs)

ChainInit ==
    /\ statPres = <<>>
    /\ ruleChecks = <<>>
    /\ stats = <<>>
    /\ ctxs = [e \in Entries |-> PooledContext]
    /\ nodes = [n \in NodeNames |-> ZeroNode]
    /\ clock = 0

\* A caller enters resource A, outbound, with one token; the slots behave in
\* any of the ways EntryInputs lists.
ChainEnter(e) ==
    /\ ctxs[e].st = "pooled"
    /\ \E in \in EntryInputs(statPres, ruleChecks, stats) :
          ApiEntry(e, "A", "Outbound", 1, in.pb, in.cb, in.sb, in.pv)

ChainNext ==
    \/ \E s \in PrepareSlotSet : AddStatPrepareSlot(s)
    \/ \E s \in RuleCheckSlotSet : AddRuleCheckSlot(s)
    \/ \E s \in StatSlotSet : AddStatSlot(s)
    \/ ChainEnter("e1")
    \/ \E e \in Entries : TraceError(e)
    \/ \E e \in Entries : Exit(e)

(***************************************************************************)
(*                        BUCKET RING (LeapArray)                          *)
(***************************************************************************)
MaxTime == 6       \* times run over 0..MaxTime (milliseconds)

Goroutines == {"g1", "g2"}

\* NewLeapArray, lines 373-375: the parameters it accepts.
ValidParams(sampleCount, intervalInMs) ==
    ~(sampleCount = 0 \/ intervalInMs % sampleCount # 0)

\* The rings of the model: (sampleCount, intervalInMs) with one, two and three
\* buckets.  A ring with intervalInMs = 0 passes ValidParams but cannot be
\* built (line 278 divides by bucketLengthInMs).
RingConfigs ==
    {c \in {<<1, 2>>, <<2, 2>>, <<2, 4>>, <<3, 3>>} : ValidParams(c[1], c[2])}

\* calculateStartTime with the multiplication by the bucket length lost.
CalculateStartTimeDiv(now, bucketLengthInMs) == now \div bucketLengthInMs

\* calculateStartTime, lines 257-259
CalculateStartTime(now, bucketLengthInMs) == now - (now % bucketLengthInMs)

\* calculateTimeIdx taking the time itself for the bucket number.
CalculateTimeIdxOfMs(now, bucketLengthInMs, length) == now % length

\* LeapArray.calculateTimeIdx, lines 438-441
CalculateTimeIdx(now, bucketLengthInMs, length) == (now \div bucketLengthInMs) % length

\* The array filled from slot 0 on, whatever the slot of now is.
NewArrayFromSlotZero(len, bucketLengthInMs, now) ==
    [i \in 0..(len - 1) |->
        [BucketStart |-> CalculateStartTime(now, bucketLengthInMs) + i * bucketLengthInMs]]

\* NewAtomicBucketWrapArrayWithTime, lines 272-304: the slots from idx on get
\* the start times from now's bucket on, then the slots before idx go on.
NewAtomicBucketWrapArrayWithTime(len, bucketLengthInMs, now) ==
    LET idx == (now \div bucketLengthInMs) % len
        startTime == CalculateStartTime(now, bucketLengthInMs)
    IN  [i \in 0..(len - 1) |->
            [BucketStart |-> IF i >= idx
                             THEN startTime + (i - idx) * bucketLengthInMs
                             ELSE startTime + (len - idx + i) * bucketLengthInMs]]

\* isBucketDeprecated with twice the interval.
IsBucketDeprecatedDouble(now, ws, intervalInMs) ==
    IF now >= ws THEN (now - ws) > 2 * intervalInMs ELSE TRUE

\* isBucketDeprecated on signed integers: the difference does not wrap.
IsBucketDeprecatedSigned(now, ws, intervalInMs) == (now - ws) > intervalInMs

\* LeapArray.isBucketDeprecated, lines 482-485: (now - ws) > intervalInMs on
\* uint64.  When ws > now the difference wraps to 2^64 - (ws - now), which is
\* above every uint32 interval.
IsBucketDeprecated(now, ws, intervalInMs) ==
    IF now >= ws THEN (now - ws) > intervalInMs ELSE TRUE

\* BucketGenerator.ResetBucketTo / BucketWrap.resetTo: the wrap is refreshed in
\* place to the new start.
ResetBucketTo(arr, idx, startTime) == [arr EXCEPT ![idx].BucketStart = startTime]

IdleGoroutine ==
    [pc |-> "idle", now |-> 0, idx |-> 0, bucketStart |-> 0,
     branch |-> "none", seen |-> 0, ret |-> -1, retStart |-> 0, err |-> "none"]

Returned(g, branch, seen, ret, retStart, err) ==
    [gs EXCEPT ![g].pc = "done", ![g].branch = branch, ![g].seen = seen,
               ![g].ret = ret, ![g].retStart = retStart, ![g].err = err]

\* currentBucketOfTime, lines 392-398: the call, its time test and its locals.
Call(g, now) ==
    /\ gs[g].pc \in {"idle", "done"}
    /\ gs' = [gs EXCEPT ![g] =
          IF now <= 0
          THEN [IdleGoroutine EXCEPT !.pc = "done", !.now = now, !.err = "timeNotPositive"]
          ELSE [IdleGoroutine EXCEPT
                  !.pc = "cmpEq", !.now = now,
                  !.idx = CalculateTimeIdx(now, la.bucketLengthInMs, la.sampleCount),
                  !.bucketStart = CalculateStartTime(now, la.bucketLengthInMs)]]
    /\ UNCHANGED <<la, array, updateLock, rd, chainVars, aggVars, flowVars>>

\* lines 401 and 415-416: load old.BucketStart; equal to bucketStart: return old.
CmpEq(g) ==
    /\ gs[g].pc = "cmpEq"
    /\ LET old == array[gs[g].idx].BucketStart
       IN  gs' = IF gs[g].bucketStart = old
                 THEN Returned(g, "eq", old, gs[g].idx, old, "none")
                 ELSE [gs EXCEPT ![g].pc = "cmpGt"]
    /\ UNCHANGED <<la, array, updateLock, rd, chainVars, aggVars, flowVars>>

\* line 417: load old.BucketStart again; a stale slot is to be reset.
CmpGt(g) ==
    /\ gs[g].pc = "cmpGt"
    /\ LET old == array[gs[g].idx].BucketStart
       IN  gs' = [gs EXCEPT ![g].pc = IF gs[g].bucketStart > old THEN "tryLock" ELSE "cmpLt",
                            ![g].seen = old]
    /\ UNCHANGED <<la, array, updateLock, rd, chainVars, aggVars, flowVars>>

\* lines 420 and 424-426: TryLock; the loser yields and starts the loop again.
TryLock(g) ==
    /\ gs[g].pc = "tryLock"
    /\ IF updateLock = FALSE
       THEN /\ updateLock' = TRUE
            /\ gs' = [gs EXCEPT ![g].pc = "reset"]
       ELSE /\ updateLock' = updateLock
            /\ gs' = [gs EXCEPT ![g].pc = "cmpEq"]
    /\ UNCHANGED <<la, array, rd, chainVars, aggVars, flowVars>>

\* line 421: ResetBucketTo(old, bucketStart) under the lock.
Reset(g) ==
    /\ gs[g].pc = "reset"
    /\ array' = ResetBucketTo(array, gs[g].idx, gs[g].bucketStart)
    /\ gs' = [gs EXCEPT ![g].pc = "unlock"]
    /\ UNCHANGED <<la, updateLock, rd, chainVars, aggVars, flowVars>>

\* The return of line 423 with the Unlock of line 422 left out.
UnlockForgotten(g) ==
    /\ gs[g].pc = "unlock"
    /\ gs' = Returned(g, "reset", gs[g].seen, gs[g].idx, gs[g].bucketStart, "none")
    /\ UNCHANGED <<la, array, updateLock, rd, chainVars, aggVars, flowVars>>

\* lines 422-423: Unlock and return old.
Unlock(g) ==
    /\ gs[g].pc = "unlock"
    /\ updateLock' = FALSE
    /\ gs' = Returned(g, "reset", gs[g].seen, gs[g].idx, gs[g].bucketStart, "none")
    /\ UNCHANGED <<la, array, rd, chainVars, aggVars, flowVars>>

\* The last branch failing for a ring of one bucket as well.
CmpLtAlwaysError(g) ==
    /\ gs[g].pc = "cmpLt"
    /\ LET old == array[gs[g].idx].BucketStart
       IN  gs' = IF gs[g].bucketStart < old
                 THEN Returned(g, "past", old, -1, 0, "timeInThePast")
                 ELSE [gs EXCEPT ![g].pc = "cmpEq"]
    /\ UNCHANGED <<la, array, updateLock, rd, chainVars, aggVars, flowVars>>

\* lines 427-434: load old.BucketStart a third time; a slot ahead of the time
\* asked for is returned as it is by a ring of one bucket and is an error
\* otherwise; when no branch applies the loop starts again.
CmpLt(g) ==
    /\ gs[g].pc = "cmpLt"
    /\ LET old == array[gs[g].idx].BucketStart
       IN  gs' = IF gs[g].bucketStart < old
                 THEN IF la.sampleCount = 1
                      THEN Returned(g, "past", old, gs[g].idx, old, "none")
                      ELSE Returned(g, "past", old, -1, 0, "timeInThePast")
                 ELSE [gs EXCEPT ![g].pc = "cmpEq"]
    /\ UNCHANGED <<la, array, updateLock, rd, chainVars, aggVars, flowVars>>

\* currentBucketOfTime, lines 392-436, run to its end by one goroutine with no
\* other writer: the ring it leaves behind.
CurrentBucketOfTime(now) ==
    /\ array' = LET idx == CalculateTimeIdx(now, la.bucketLengthInMs, la.sampleCount)
                    bucketStart == CalculateStartTime(now, la.bucketLengthInMs)
                IN  IF now <= 0 THEN array
                    ELSE IF bucketStart > array[idx].BucketStart
                         THEN ResetBucketTo(array, idx, bucketStart)
                         ELSE array
    /\ UNCHANGED <<la, updateLock, gs, rd, chainVars, aggVars, flowVars>>

\* The predicates ValuesConditional is called with: lo <= start < hi, the shape
\* of the aggregator's predicate, and the one that is always true.
Predicates == {[lo |-> 0, hi |-> 3], [lo |-> 2, hi |-> 5], [lo |-> 0, hi |-> 100]}
Holds(p, start) == p.lo <= start /\ start < p.hi

IdleReader ==
    [pc |-> "idle", fn |-> "none", now |-> 0, pred |-> [lo |-> 0, hi |-> 0],
     i |-> 0, checked |-> 0, ret |-> <<>>, before |-> {}]

\* valuesWithTime, lines 449-453, and ValuesConditional, lines 466-470: the call
\* and its time test.  before keeps the starts that earlier calls returned.
Values(fn, now, p) ==
    /\ rd.pc \in {"idle", "done"}
    /\ rd' = [rd EXCEPT !.pc = IF now <= 0 THEN "done" ELSE "scan",
                        !.fn = fn, !.now = now, !.pred = p, !.i = 0, !.checked = 0,
                        !.ret = <<>>,
                        !.before = @ \cup {rd.ret[k].start : k \in 1..Len(rd.ret)}]
    /\ UNCHANGED <<la, array, updateLock, gs, chainVars, aggVars, flowVars>>

NextSlot(r) == [r EXCEPT !.i = @ + 1, !.pc = IF r.i + 1 >= la.sampleCount THEN "done" ELSE "scan"]

\* lines 455-459 and 472-473: load the start of slot i and drop the slot when
\* it is deprecated; valuesWithTime keeps it otherwise.
Scan ==
    /\ rd.pc = "scan"
    /\ LET ws == array[rd.i].BucketStart
       IN  rd' = IF IsBucketDeprecated(rd.now, ws, la.intervalInMs) THEN NextSlot(rd)
                 ELSE IF rd.fn = "valuesWithTime"
                      THEN NextSlot([rd EXCEPT !.ret = Append(@, [idx |-> rd.i, start |-> ws])])
                      ELSE [rd EXCEPT !.pc = "pred", !.checked = ws]
    /\ UNCHANGED <<la, array, updateLock, gs, chainVars, aggVars, flowVars>>

\* line 473: ValuesConditional loads the start again for the predicate.
ScanPredicate ==
    /\ rd.pc = "pred"
    /\ LET ws == array[rd.i].BucketStart
       IN  rd' = IF ~Holds(rd.pred, ws) THEN NextSlot(rd)
                 ELSE NextSlot([rd EXCEPT !.ret = Append(@, [idx |-> rd.i, start |-> rd.checked])])
    /\ UNCHANGED <<la, array, updateLock, gs, chainVars, aggVars, flowVars>>

\* A ring as NewLeapArray builds it at time now.
RingInit ==
    \E c \in RingConfigs, now \in 0..MaxTime :
        /\ la = [sampleCount |-> c[1], intervalInMs |-> c[2], bucketLengthInMs |-> c[2] \div c[1]]
        /\ array = NewAtomicBucketWrapArrayWithTime(c[1], c[2] \div c[1], now)
        /\ updateLock = FALSE
        /\ gs = [g \in Goroutines |-> IdleGoroutine]
        /\ rd = IdleReader

(***************************************************************************)
(*                          METRIC AGGREGATOR                              *)
(***************************************************************************)
MaxAggSec == 2     \* the wall clock runs over the seconds 0..MaxAggSec

MaxFullSec == 62   \* seconds of steady traffic, enough to fill the write channel

\* aggregator.go line 32
logFlushQueueSize == 60

\* Wall-clock readings in milliseconds: each second and its middle.
AggTimes == {sec * 1000 + ms : sec \in 0..MaxAggSec, ms \in {0, 500}}
\* The starts of the one-second buckets of a node's metric ring.
BucketStarts == {sec * 1000 : sec \in 0..MaxAggSec}

\* stat.ResourceNodeList() followed by stat.InboundNode(), lines 108-114.
AggNodes == <<"A", InboundNodeName>>

\* isItemTimestampInTime with the upper end of the window let in.
IsItemTimestampInTimeClosed(ts, currentSecStart, lft) ==
    ts >= lft /\ ts <= currentSecStart

\* isItemTimestampInTime, lines 142-145, with lastFetchTime as it reads it.
IsItemTimestampInTime(ts, currentSecStart, lft) ==
    ts >= lft /\ ts < currentSecStart

\* MetricsOnCondition of a node: one item for each bucket of its ring whose
\* start satisfies the predicate; the item is active when the bucket counted
\* anything.
MetricsOnCondition(n, currentTime, lft) ==
    {[Timestamp |-> t, Resource |-> n, active |-> t \in buckets[n]] :
        t \in {b \in BucketStarts \cup buckets[n] : IsItemTimestampInTime(b, currentTime, lft)}}

\* isActiveMetricItem, lines 137-140
IsActiveMetricItem(item) == item.active

\* currentMetricItems, lines 147-159: the active items, keyed by timestamp.
CurrentMetricItems(n, currentTime, lft) ==
    LET items == {it \in MetricsOnCondition(n, currentTime, lft) : IsActiveMetricItem(it)}
    IN  [t \in {it.Timestamp : it \in items} |->
            CHOOSE it \in items : it.Timestamp = t]

\* aggregateIntoMap, lines 124-135: each item joins the list of its timestamp.
AggregateIntoMap(mm, metrics) ==
    [t \in (DOMAIN mm) \cup (DOMAIN metrics) |->
        IF t \in DOMAIN metrics
        THEN IF t \in DOMAIN mm THEN Append(mm[t], metrics[t]) ELSE <<metrics[t]>>
        ELSE mm[t]]

RECURSIVE AggregateNodes(_, _, _, _)
\* The loop of doAggregate over the nodes, lines 108-114.
AggregateNodes(i, mm, curTime, lft) ==
    IF i > Len(AggNodes) THEN mm
    ELSE AggregateNodes(i + 1,
             AggregateIntoMap(mm, CurrentMetricItems(AggNodes[i], curTime, lft)),
             curTime, lft)

\* The empty metricTimeMap
EmptyMap == [t \in {} |-> <<>>]

\* doAggregate with the test of line 104 left out.
DoAggregateNoSkip ==
    /\ aggPc = "idle"
    /\ LET curTime == aggNow - (aggNow % 1000)
           maps == AggregateNodes(1, EmptyMap, curTime, lastFetchTime)
       IN  /\ lastFetchTime' = curTime
           /\ IF DOMAIN maps # {}
              THEN /\ aggPc' = "send"
                   /\ aggMaps' = maps
                   /\ published' = Append(published, [from |-> lastFetchTime, to |-> curTime])
              ELSE UNCHANGED <<aggPc, aggMaps, published>>
    /\ UNCHANGED <<writeChan, aggNow, buckets, written, chainVars, ringVars, flowVars>>

\* doAggregate, lines 100-119: skip a tick that is not past lastFetchTime, else
\* collect the window, move lastFetchTime and go on to publish a non-empty map.
\* published keeps the window of every tick that publishes.
DoAggregate ==
    /\ aggPc = "idle"
    /\ LET curTime == aggNow - (aggNow % 1000)
           maps == AggregateNodes(1, EmptyMap, curTime, lastFetchTime)
       IN  IF curTime <= lastFetchTime
           THEN UNCHANGED <<lastFetchTime, aggPc, aggMaps, published>>
           ELSE /\ lastFetchTime' = curTime
                /\ IF DOMAIN maps # {}
                   THEN /\ aggPc' = "send"
                        /\ aggMaps' = maps
                        /\ published' = Append(published, [from |-> lastFetchTime, to |-> curTime])
                   ELSE UNCHANGED <<aggPc, aggMaps, published>>
    /\ UNCHANGED <<writeChan, aggNow, buckets, written, chainVars, ringVars, flowVars>>

\* line 120: writeChan <- maps, which waits while the channel is full.
SendMaps ==
    /\ aggPc = "send"
    /\ Len(writeChan) < logFlushQueueSize
    /\ writeChan' = Append(writeChan, aggMaps)
    /\ aggPc' = "idle"
    /\ aggMaps' = EmptyMap
    /\ UNCHANGED <<lastFetchTime, aggNow, buckets, published, written, chainVars, ringVars, flowVars>>

RECURSIVE SortedKeys(_)
\* lines 81-88: the timestamps of a map in ascending order.
SortedKeys(S) ==
    IF S = {} THEN <<>>
    ELSE LET min == CHOOSE t \in S : \A u \in S : t <= u
         IN  <<min>> \o SortedKeys(S \ {min})

\* The Write calls of a loop that gives up a map at the first failed Write.
RECURSIVE WritesUntilError(_, _, _)
WritesUntilError(m, keys, fails) ==
    IF keys = <<>> THEN <<>>
    ELSE <<[t |-> Head(keys), items |-> m[Head(keys)], err |-> Head(keys) \in fails, map |-> m]>>
         \o (IF Head(keys) \in fails THEN <<>> ELSE WritesUntilError(m, Tail(keys), fails))

\* lines 90-95: metricWriter.Write(t, m[t]) for each key in turn; an error is
\* logged and the loop goes on.  fails are the timestamps whose Write fails.
WritesOf(m, keys, fails) ==
    [k \in 1..Len(keys) |->
        [t |-> keys[k], items |-> m[keys[k]], err |-> keys[k] \in fails, map |-> m]]

\* writeTaskLoop, lines 77-98: one map is received and written, one Write for
\* each timestamp in ascending order.
WriteTaskLoopWith(fails) ==
    /\ writeChan # <<>>
    /\ LET m == Head(writeChan)
       IN  written' = written \o WritesOf(m, SortedKeys(DOMAIN m), fails)
    /\ writeChan' = Tail(writeChan)
    /\ UNCHANGED <<lastFetchTime, aggPc, aggMaps, aggNow, buckets, published, chainVars, ringVars, flowVars>>

\* The loop with a writer that takes every batch.
WriteTaskLoop == WriteTaskLoopWith({})

\* The loop with a writer that may fail on any batch.
WriteTaskLoopFailing ==
    /\ writeChan # <<>>
    /\ \E fails \in SUBSET (DOMAIN Head(writeChan)) : WriteTaskLoopWith(fails)

\* The wall clock (util.CurrentTimeMillis) reads any time; it is not monotone.
SetClock(t) ==
    /\ aggNow' = t
    /\ UNCHANGED <<lastFetchTime, writeChan, aggPc, aggMaps, buckets, published, written,
                   chainVars, ringVars, flowVars>>

\* Traffic on a node counts in the bucket of the current second.
RecordTraffic(n) ==
    /\ buckets' = [buckets EXCEPT ![n] = @ \cup {aggNow - (aggNow % 1000)}]
    /\ UNCHANGED <<lastFetchTime, writeChan, aggPc, aggMaps, aggNow, published, written,
                   chainVars, ringVars, flowVars>>

\* One second of steady load has gone by: the resource counted traffic in the
\* current second and the tick for it has completed.
SecondPasses ==
    /\ aggPc = "idle"
    /\ lastFetchTime = aggNow
    /\ aggNow \in buckets["A"]
    /\ aggNow + 1000 <= MaxFullSec * 1000
    /\ SetClock(aggNow + 1000)

\* A second goes by on a clock that only moves forward.
SecondGoesBy ==
    /\ aggNow + 1000 <= (MaxAggSec + 1) * 1000
    /\ SetClock(aggNow + 1000)

\* lines 35-38 and InitTask: nothing fetched, the channel empty.
AggInit ==
    /\ lastFetchTime = -1
    /\ writeChan = <<>>
    /\ aggPc = "idle"
    /\ aggMaps = EmptyMap
    /\ aggNow = 0
    /\ buckets = [n \in {AggNodes[i] : i \in 1..Len(AggNodes)} |-> {}]
    /\ published = <<>>
    /\ written = <<>>

\* The chain of the statistics model: the default chain (node prepare slot,
\* flow slot, statistic slot) and a user prepare slot in front of it.
StatChainInit ==
    /\ statPres = AppendSorted(<<[name |-> "stat.ResourceNodePrepareSlot", order |-> 1000]>>,
                               [name |-> "userPrepare", order |-> 500])
    /\ ruleChecks = <<[name |-> "flow.Slot", order |-> RuleCheckSlotOrder]>>
    /\ stats = <<[name |-> "stat.Slot", order |-> StatSlotOrder]>>
    /\ ctxs = [e \in Entries |-> PooledContext]
    /\ nodes = [n \in NodeNames |-> ZeroNode]
    /\ clock = 0

\* Callers enter resource A in either direction with a batch of tokens; the
\* second entry is taken after the first.
StatEnter(e) ==
    /\ ctxs[e].st = "pooled"
    /\ e = "e2" => ctxs["e1"].st # "pooled"
    /\ \E flow \in {"Inbound", "Outbound"}, batch \in 1..MaxBatch,
          in \in EntryInputs(statPres, ruleChecks, stats) :
          ApiEntry(e, "A", flow, batch, in.pb, in.cb, in.sb, in.pv)

StatNext ==
    \/ \E e \in Entries : StatEnter(e)
    \/ \E e \in Entries : TraceError(e)
    \/ \E e \in Entries : Exit(e)
    \/ Tick

RingIdle ==
    /\ la = [sampleCount |-> 0, intervalInMs |-> 0, bucketLengthInMs |-> 0]
    /\ array = <<>>
    /\ updateLock = FALSE
    /\ gs = <<>>
    /\ rd = <<>>

AggIdle ==
    /\ lastFetchTime = -1
    /\ writeChan = <<>>
    /\ aggPc = "idle"
    /\ aggMaps = <<>>
    /\ aggNow = 0
    /\ buckets = <<>>
    /\ published = <<>>
    /\ written = <<>>

FlowIdle ==
    /\ tcMap = <<>>
    /\ flowWaitCount = <<>>
    /\ nano = 0
    /\ flowLog = <<>>

Init == ChainInit /\ RingIdle /\ AggIdle /\ FlowIdle
Next == ChainNext
Spec == Init /\ [][Next]_vars

ChainIdle ==
    /\ statPres = <<>>
    /\ ruleChecks = <<>>
    /\ stats = <<>>
    /\ ctxs = <<>>
    /\ nodes = <<>>
    /\ clock = 0

\* The ring used by two goroutines.
SpecRingInit == RingInit /\ ChainIdle /\ AggIdle /\ FlowIdle
SpecRingNext ==
    \/ \E g \in Goroutines, now \in 0..MaxTime : Call(g, now)
    \/ \E g \in Goroutines : CmpEq(g)
    \/ \E g \in Goroutines : CmpGt(g)
    \/ \E g \in Goroutines : TryLock(g)
    \/ \E g \in Goroutines : Reset(g)
    \/ \E g \in Goroutines : Unlock(g)
    \/ \E g \in Goroutines : CmpLt(g)
SpecRing == SpecRingInit /\ [][SpecRingNext]_vars

\* A goroutine inside currentBucketOfTime takes its next step.  The loop never
\* blocks: runtime.Gosched() hands the processor over and the goroutine is
\* scheduled again, so a step that is possible is taken in the end.
GoStep(g) ==
    CmpEq(g) \/ CmpGt(g) \/ TryLock(g) \/ Reset(g) \/ Unlock(g) \/ CmpLt(g)
SpecRingFair == SpecRing /\ \A g \in Goroutines : WF_vars(GoStep(g))

\* The ring used by one goroutine while a reader lists its buckets.
SpecValuesNext ==
    \/ \E now \in 0..MaxTime : CurrentBucketOfTime(now)
    \/ \E now \in 0..MaxTime : Values("valuesWithTime", now, [lo |-> 0, hi |-> 0])
    \/ \E now \in 0..MaxTime, p \in Predicates : Values("ValuesConditional", now, p)
    \/ Scan
    \/ ScanPredicate
SpecValues == SpecRingInit /\ [][SpecValuesNext]_vars

\* The aggregation task, the flush task, the clock and the traffic.
SpecAggInit == AggInit /\ ChainIdle /\ RingIdle /\ FlowIdle
SpecAggNext ==
    \/ DoAggregate
    \/ SendMaps
    \/ WriteTaskLoop
    \/ \E t \in AggTimes : SetClock(t)
    \/ \E i \in 1..Len(AggNodes) : RecordTraffic(AggNodes[i])
SpecAgg == SpecAggInit /\ [][SpecAggNext]_vars

\* The aggregator under steady load on resource A, one tick a second, with a
\* flush loop that may fall behind.
SpecAggFullNext ==
    \/ DoAggregate
    \/ SendMaps
    \/ WriteTaskLoop
    \/ SecondPasses
    \/ RecordTraffic("A")
SpecAggFull == SpecAggInit /\ [][SpecAggFullNext]_vars

\* The aggregator on a forward clock, ticks now and then, with a writer that
\* may fail.
SpecAggWriteNext ==
    \/ DoAggregate
    \/ SendMaps
    \/ WriteTaskLoopFailing
    \/ SecondGoesBy
    \/ \E n \in {"A", InboundNodeName} : RecordTraffic(n)
SpecAggWrite == SpecAggInit /\ [][SpecAggWriteNext]_vars

\* Entries on the default chain under the loaded flow rules.
SpecFlowInit == FlowInit /\ RingIdle /\ AggIdle

\* A caller enters a resource with a batch of tokens.
FlowEnter(e) ==
    \E res \in Resources, batch \in 1..MaxBatch :
        \E ob \in OtherBehaviours(tcMap[res]) : FlowEntry(e, res, batch, ob)

SpecFlowNext ==
    \/ FlowEnter("e1")
    \/ Exit("e1")
    \/ AdvanceNano
SpecFlow == SpecFlowInit /\ [][SpecFlowNext]_vars

\* flow.Slot.Check called again and again on rules of other kinds.
SpecFlowSlotInit == FlowSlotInit /\ RingIdle /\ AggIdle

\* The chain calls Check for an entry on res.
FlowSlotCheckCalled(res) ==
    \E batch \in {1, MaxBatch} :
        \E ob \in OtherBehaviours(tcMap[res]) : SlotCheck(res, batch, ob)

SpecFlowSlotNext == FlowSlotCheckCalled("A")
SpecFlowSlot == SpecFlowSlotInit /\ [][SpecFlowSlotNext]_vars

SpecStatInit == StatChainInit /\ RingIdle /\ AggIdle /\ FlowIdle
SpecStatNext == StatNext
SpecStat == SpecStatInit /\ [][SpecStatNext]_vars

(***************************************************************************)
(*          MICRO CLIENT WRAPPER (pkg/adapters/micro/client.go)            *)
(***************************************************************************)

MaxMicroCalls == 3      \* calls made through the wrapper in a run
MaxOutlierStreams == 2  \* of which streams in outlier mode

\* The slots of core/outlier the wrapper registers.
OutlierDefaultSlot == [name |-> "outlier.DefaultSlot", order |-> 3000]
OutlierDefaultMetricStatSlot == [name |-> "outlier.DefaultMetricStatSlot", order |-> 3000]

\* A slot chain as a value: its three lists.
Chain(sps, rcs, ss) == [statPres |-> sps, ruleChecks |-> rcs, stats |-> ss]

\* api.BuildDefaultSlotChain: a new chain with the node prepare slot, the flow
\* slot and the statistic slot.
BuildDefaultSlotChain ==
    Chain(<<[name |-> "stat.ResourceNodePrepareSlot", order |-> 1000]>>,
          <<[name |-> "flow.Slot", order |-> RuleCheckSlotOrder]>>,
          <<[name |-> "stat.Slot", order |-> StatSlotOrder]>>)

\* api.GlobalSlotChain: the one chain of the process, the lists of this model.
GlobalSlotChain == Chain(statPres, ruleChecks, stats)

\* slotChain.AddRuleCheckSlot(outlier.DefaultSlot) and
\* slotChain.AddStatSlot(outlier.DefaultMetricStatSlot) on a chain value.
WithOutlierSlots(ch) ==
    [ch EXCEPT !.ruleChecks = AppendSorted(@, OutlierDefaultSlot),
               !.stats = AppendSorted(@, OutlierDefaultMetricStatSlot)]

\* One request guarded on chain ch: api.Entry on the resource, outbound, one
\* token; a blocked entry was exited by api.Entry and the wrapped client is
\* not called; else the wrapped client runs, its error is traced when trace
\* is set, and the deferred entry.Exit() runs.  The value is the nodes after.
GuardedRequest(ch, res, in, failed, trace) ==
    LET c0 == [PooledContext EXCEPT !.res = res, !.flow = "Outbound", !.batch = 1,
                                    !.startTime = clock, !.entry = TRUE]
        c1 == SlotChainEntry(c0, ch.statPres, ch.ruleChecks, ch.stats,
                             in.pb, in.cb, in.sb, in.pv)
        n1 == ApplyLog(nodes, c1, ch.stats, c1.log, 1, clock)
        c2 == [c1 EXCEPT !.err = failed /\ trace]
        c3 == SentinelEntryExit(c2, ch.stats)
    IN  IF IsBlocked(c1.ret) THEN n1
        ELSE ApplyLog(n1, c3, ch.stats, c3.log, Len(c1.log) + 1, clock)

CallsMade == nodes["A"].pass + nodes["A"].block + nodes["B"].pass + nodes["B"].block

\* clientWrapper.Call, lines 18-59.  Without outlier mode the entry runs on
\* the global chain; with it, on a chain built for this call.
ClientCall(outlier) ==
    /\ CallsMade < MaxMicroCalls
    /\ LET ch == IF outlier THEN WithOutlierSlots(BuildDefaultSlotChain)
                 ELSE GlobalSlotChain
       IN  \E res \in Resources, failed \in BOOLEAN :
           \E in \in EntryInputs(ch.statPres, ch.ruleChecks, ch.stats) :
              nodes' = GuardedRequest(ch, res, in, failed, ~outlier)
    /\ UNCHANGED <<statPres, ruleChecks, stats, ctxs, clock, ringVars, aggVars, flowVars>>

\* clientWrapper.Stream, lines 61-102.  With outlier mode the two slots are
\* added to the chain sentinel.GlobalSlotChain() returns.
ClientStream(outlier) ==
    /\ CallsMade < MaxMicroCalls
    /\ outlier => Len(stats) < 1 + MaxOutlierStreams
    /\ LET ch == IF outlier THEN WithOutlierSlots(GlobalSlotChain)
                 ELSE GlobalSlotChain
       IN  /\ statPres' = ch.statPres
           /\ ruleChecks' = ch.ruleChecks
           /\ stats' = ch.stats
           /\ \E res \in Resources, failed \in BOOLEAN :
              \E in \in EntryInputs(ch.statPres, ch.ruleChecks, ch.stats) :
                 nodes' = GuardedRequest(ch, res, in, failed, ~outlier)
    /\ UNCHANGED <<ctxs, clock, ringVars, aggVars, flowVars>>

\* The process after api.InitDefault: the global chain is the default chain.
MicroInit ==
    /\ statPres = BuildDefaultSlotChain.statPres
    /\ ruleChecks = BuildDefaultSlotChain.ruleChecks
    /\ stats = BuildDefaultSlotChain.stats
    /\ ctxs = [e \in Entries |-> PooledContext]
    /\ nodes = [n \in NodeNames |-> ZeroNode]
    /\ clock = 0

SpecMicroInit == MicroInit /\ RingIdle /\ AggIdle /\ FlowIdle
SpecMicroNext ==
    \/ \E outlier \in BOOLEAN : ClientCall(outlier)
    \/ \E outlier \in BOOLEAN : ClientStream(outlier)
SpecMicro == SpecMicroInit /\ [][SpecMicroNext]_vars

(***************************************************************************)
(*                     CLAIMS ABOUT THE SLOT CHAIN                         *)
(***************************************************************************)
\* The entries that went through SlotChain.Entry.
Entered == {e \in Entries : ctxs[e].st # "pooled"}
LogOf(e) == ctxs[e].log
\* The positions of the log of e that record callback cb.
At(e, cb) == {j \in 1..Len(LogOf(e)) : LogOf(e)[j].cb = cb}
NonBlockedReturns == {"nil", "Pass", "ShouldWait"}

\* C1: the rule-check slots are called in chain order; a slot that returns
\* without blocking (nil included) is followed by the next slot; nothing is
\* called after a slot that returned Blocked; and the rule-check result of the
\* entry is Blocked exactly when a called slot returned Blocked.
C1_RuleChecksStopAtFirstBlocked ==
    \A e \in Entered :
        LET L == LogOf(e)
            K == At(e, "Check")
        IN  /\ \A j \in K : L[j].i = Cardinality({k \in K : k <= j})
            /\ \A j \in K : L[j].i <= Len(ruleChecks)
            /\ \A j, k \in K : j < k => L[j].out \in NonBlockedReturns
            /\ \A j \in K :
                  (L[j].out \in NonBlockedReturns /\ L[j].i < Len(ruleChecks))
                      => \E k \in K : k > j /\ L[k].i = L[j].i + 1
            /\ (At(e, "Prepare") = {} \/ \A j \in At(e, "Prepare") : L[j].out = "ok")
                  /\ Len(ruleChecks) > 0 => \E k \in K : L[k].i = 1
            /\ IsBlocked(ctxs[e].RuleCheckResult) <=> \E j \in K : L[j].out = "Blocked"
            /\ ~ctxs[e].panicked => ctxs[e].ret = ctxs[e].RuleCheckResult

\* C1 witness: three rule-check slots; the first returned nil, the second
\* Blocked, the third was not called, and the entry is blocked.
C1_Witness ==
    \E e \in Entered :
        /\ Len(ruleChecks) = 3
        /\ \E j, k \in At(e, "Check") :
              /\ LogOf(e)[j].i = 1 /\ LogOf(e)[j].out = "nil"
              /\ LogOf(e)[k].i = 2 /\ LogOf(e)[k].out = "Blocked"
        /\ Cardinality(At(e, "Check")) = 2
        /\ ctxs[e].ret = "Blocked"

StatCallbacks(e, i) ==
    {j \in At(e, "OnEntryPassed") \cup At(e, "OnEntryBlocked") : LogOf(e)[j].i = i}

\* C2 (as claimed): every registered stat slot gets exactly one callback for
\* every entry: OnEntryBlocked when the rule-check result is Blocked,
\* OnEntryPassed otherwise.
C2_EveryStatSlotCalledOnce ==
    \A e \in Entered : \A i \in 1..Len(stats) :
        /\ Cardinality(StatCallbacks(e, i)) = 1
        /\ \A j \in StatCallbacks(e, i) :
              LogOf(e)[j].cb = IF IsBlocked(ctxs[e].RuleCheckResult)
                               THEN "OnEntryBlocked" ELSE "OnEntryPassed"

\* C3: OnCompleted is called only by an exit, never for a blocked entry, and
\* never before an OnEntryPassed of the same entry.
C3_OnCompletedOnlyForPassed ==
    \A e \in Entered :
        /\ IsBlocked(ctxs[e].RuleCheckResult) => At(e, "OnCompleted") = {}
        /\ At(e, "OnCompleted") # {} => ctxs[e].exits >= 1 /\ ctxs[e].ret \in {"Pass", "nil"}
        /\ \A j \in At(e, "OnCompleted"), k \in At(e, "OnEntryPassed") : k < j

\* C3 witness: a blocked entry was exited and no OnCompleted was called, while
\* a stat slot is registered and was told of the block.
C3_Witness ==
    \E e \in Entered :
        /\ ctxs[e].st = "blocked" /\ ctxs[e].exits = 1
        /\ Len(stats) > 0 /\ At(e, "OnEntryBlocked") # {}
        /\ At(e, "OnCompleted") = {}

\* C4 (as claimed): a panic of a slot is recovered in Entry, the error is
\* recorded on the context and the entry is not blocked.
C4_PanicRecordedAndPassed ==
    \A e \in Entered :
        ctxs[e].panicked => ctxs[e].err /\ ~IsBlocked(ctxs[e].ret) /\ ctxs[e].st = "live"

\* C5 (as claimed): when a prepare slot or a stat slot panics and the rule
\* checks pass, every stat slot ordered after the panicking slot still gets
\* OnEntryPassed.
C5_LaterStatSlotsSeeThePass ==
    \A e \in Entered :
        LET L == LogOf(e)
        IN  \A j \in 1..Len(L) :
              (L[j].out = "panic" /\ L[j].cb \in {"Prepare", "OnEntryPassed"})
                  => \A i \in 1..Len(stats) :
                        (L[j].cb = "Prepare" \/ i > L[j].i)
                            => \E k \in At(e, "OnEntryPassed") : L[k].i = i /\ L[k].out = "ok"

\* C6: once an entry has been exited, a further Exit of it changes neither the
\* counters of any node (complete, rt, error, concurrency, ...) nor the entry.
C6_ExitIdempotent ==
    [][\A e \in Entries :
          (ctxs[e].exits >= 1 /\ ctxs'[e].exits > ctxs[e].exits)
              => /\ nodes' = nodes
                 /\ ctxs'[e] = [ctxs[e] EXCEPT !.exits = @ + 1]]_vars

\* C6 witness: a passed entry was exited twice and its completion was counted.
C6_Witness ==
    \E e \in Entered :
        /\ ctxs[e].st = "live" /\ ctxs[e].exits = 2
        /\ ctxs[e].ret = "Pass" /\ ctxs[e].StatNode = "A"
        /\ Cardinality(At(e, "OnCompleted")) = 1
        /\ nodes["A"].complete >= ctxs[e].batch
        /\ nodes["A"].concurrency >= 0

\* The calls of currentBucketOfTime that have returned for a time above zero.
Completed == {g \in Goroutines : gs[g].pc = "done" /\ gs[g].now > 0}
Contains(start, now) == start <= now /\ now < start + la.bucketLengthInMs

\* C7 as stated: whatever calls came before, every call of currentBucketOfTime
\* for a time above zero returns a wrap whose start satisfies
\* start <= now < start + bucketLengthInMs.
C7_ReturnedWrapContainsNow ==
    \A g \in Completed :
        gs[g].err = "none" /\ gs[g].ret # -1 /\ Contains(gs[g].retStart, gs[g].now)

\* C7, amended: a call for a time above zero returns the wrap of now's slot
\* with start <= now < start + bucketLengthInMs, unless it found that slot
\* holding a start later than now's bucket start; then a ring of one bucket
\* returns that later wrap and any other ring returns an error and no wrap.
C7_ReturnedWrapContainsNowUnlessSlotAhead ==
    \A g \in Completed :
        \/ /\ gs[g].branch \in {"eq", "reset"}
           /\ gs[g].err = "none"
           /\ gs[g].ret = CalculateTimeIdx(gs[g].now, la.bucketLengthInMs, la.sampleCount)
           /\ Contains(gs[g].retStart, gs[g].now)
        \/ /\ gs[g].branch = "past"
           /\ gs[g].seen > CalculateStartTime(gs[g].now, la.bucketLengthInMs)
           /\ IF la.sampleCount = 1
              THEN gs[g].err = "none" /\ gs[g].ret = 0 /\ gs[g].retStart = gs[g].seen
              ELSE gs[g].err = "timeInThePast" /\ gs[g].ret = -1

\* One call has reset a slot and returned it, another has met a slot ahead of
\* its time in a ring of several buckets.
C7_Witness ==
    /\ la.sampleCount > 1
    /\ gs["g1"].pc = "done" /\ gs["g1"].branch = "reset"
    /\ Contains(gs["g1"].retStart, gs["g1"].now)
    /\ gs["g2"].pc = "done" /\ gs["g2"].branch = "past" /\ gs["g2"].now > 0

\* C8: at every moment, under every interleaving of concurrent calls, no two
\* slots of the ring hold the same BucketStart.
C8_BucketStartsDistinct ==
    \A i, j \in DOMAIN array : i # j => array[i].BucketStart # array[j].BucketStart

\* Two goroutines have each reset a slot of a ring of several buckets.
C8_Witness ==
    /\ la.sampleCount > 1
    /\ \A g \in Goroutines : gs[g].pc = "done" /\ gs[g].branch = "reset"
    /\ gs["g1"].now # gs["g2"].now

\* C9: valuesWithTime(now) and ValuesConditional(now, p) list no bucket with
\* now - start > intervalInMs, and a bucket that an earlier call listed is left
\* out once now is past start + intervalInMs, reset or not.
C9_ExpiredBucketsExcluded ==
    /\ \A k \in 1..Len(rd.ret) : ~(rd.now - rd.ret[k].start > la.intervalInMs)
    /\ rd.pc = "done" =>
          \A s \in rd.before :
              rd.now > s + la.intervalInMs => \A k \in 1..Len(rd.ret) : rd.ret[k].start # s

\* A call has finished and left out a bucket that an earlier call listed and
\* that still holds the same start, while listing another one.
C9_Witness ==
    /\ rd.pc = "done"
    /\ Len(rd.ret) > 0
    /\ \E s \in rd.before :
          /\ rd.now > s + la.intervalInMs
          /\ \E i \in DOMAIN array : array[i].BucketStart = s


(***************************************************************************)
(*                     CLAIMS ABOUT THE AGGREGATOR                         *)
(***************************************************************************)
\* How many times an item of node n with timestamp T has been placed on the
\* write channel: the maps still in the channel and the maps already written.
Placed(T, n) ==
    Cardinality({<<k, j>> \in (1..Len(writeChan)) \X (1..Len(AggNodes)) :
                    /\ T \in DOMAIN writeChan[k]
                    /\ j <= Len(writeChan[k][T])
                    /\ writeChan[k][T][j].Resource = n})
    + Cardinality({<<k, j>> \in (1..Len(written)) \X (1..Len(AggNodes)) :
                    /\ written[k].t = T
                    /\ j <= Len(written[k].items)
                    /\ written[k].items[j].Resource = n})

\* C10: over any sequence of ticks, an item of a node with timestamp T is
\* placed on the write channel at most once, and the windows
\* [lastFetchTime, curSecStart) of the ticks that publish never overlap.
C10_PublishedAtMostOnce ==
    /\ \A T \in BucketStarts : \A j \in 1..Len(AggNodes) : Placed(T, AggNodes[j]) <= 1
    /\ \A a, b \in 1..Len(published) : a < b => published[a].to <= published[b].from

\* Two ticks have published, both maps are on the channel or written, node A
\* has an item in each, and the clock has since gone back behind lastFetchTime.
C10_Witness ==
    /\ Len(published) >= 2
    /\ aggPc = "idle"
    /\ \E T, U \in BucketStarts : T # U /\ Placed(T, "A") = 1 /\ Placed(U, "A") = 1
    /\ \E T \in BucketStarts : Placed(T, InboundNodeName) = 1
    /\ written # <<>>
    /\ aggNow < lastFetchTime


\* C11: a tick that has a non-empty map to publish while the write channel is
\* full drops the map and completes; it is never left waiting at the channel.
C11_FullChannelNeverHoldsTick ==
    ~(aggPc = "send" /\ Len(writeChan) >= logFlushQueueSize)


\* The start of the second the aggregator's clock is in.
CurSecStart == aggNow - (aggNow % 1000)

\* C25: a tick whose second-aligned time is not greater than lastFetchTime
\* publishes nothing and leaves lastFetchTime as it is; lastFetchTime never
\* decreases and, once a tick has set it, is a multiple of 1000.
C25_SkippedTick ==
    /\ [][CurSecStart <= lastFetchTime =>
            /\ lastFetchTime' = lastFetchTime
            /\ published' = published
            /\ (aggPc = "idle" => aggPc' = "idle" /\ aggMaps' = aggMaps)]_vars
    /\ [][lastFetchTime' >= lastFetchTime]_vars
    /\ [](lastFetchTime = -1 \/ (lastFetchTime >= 0 /\ lastFetchTime % 1000 = 0))

\* A tick has published, the clock has gone back behind lastFetchTime, and
\* traffic of the second the clock is in waits in a bucket.
C25_Witness ==
    /\ aggPc = "idle"
    /\ published # <<>>
    /\ lastFetchTime >= 1000
    /\ CurSecStart < lastFetchTime
    /\ CurSecStart \in buckets["A"]

\* The Write calls made for the map that call k belongs to.
WritesOfSameMap(k) == {j \in 1..Len(written) : written[j].map = written[k].map}

\* C21: the flush loop hands the writer the timestamps of each map in strictly
\* ascending order, one Write per timestamp with all the items of that
\* timestamp; a failed Write stops neither the Writes for the remaining
\* timestamps of the map nor the draining of the maps that follow.
C21_FlushOrder ==
    /\ \A k \in 1..Len(written) :
          LET m == written[k].map
              G == WritesOfSameMap(k)
          IN  /\ written[k].t \in DOMAIN m
              /\ written[k].items = m[written[k].t]
              /\ \A j \in G : \A i \in 1..Len(written) :
                    (k <= i /\ i <= j) => i \in G
              /\ \A j \in G : k < j => written[k].t < written[j].t
              /\ {written[j].t : j \in G} = DOMAIN m
    /\ writeChan # <<>> => ENABLED WriteTaskLoopFailing

\* The Write for the first timestamp of a map failed, the Write for its second
\* timestamp followed, carrying the items of two nodes, and the next map was
\* drained after it.
C21_Witness ==
    /\ Len(written) >= 3
    /\ written[1].err
    /\ written[2].map = written[1].map
    /\ written[1].t < written[2].t
    /\ Len(written[2].items) = 2
    /\ written[3].map # written[1].map

(***************************************************************************)
(*                     MORE CLAIMS ABOUT THE CHAIN                         *)
(***************************************************************************)
SortedByOrder(list) ==
    \A i, j \in 1..Len(list) : i < j => Order(list[i]) <= Order(list[j])

\* The phase of a callback of Entry and the list its slot is in.
PhaseOf(cb) == IF cb = "Prepare" THEN 1 ELSE IF cb = "Check" THEN 2 ELSE 3
ListOf(cb) == IF cb = "Prepare" THEN statPres ELSE IF cb = "Check" THEN ruleChecks ELSE stats
EntryCallbacks(e) == At(e, "Prepare") \cup At(e, "Check")
                        \cup At(e, "OnEntryPassed") \cup At(e, "OnEntryBlocked")

\* C23: whatever the order of the AddStatPrepareSlot, AddRuleCheckSlot and
\* AddStatSlot calls, each of the three lists is sorted by ascending Order(),
\* and Entry calls the prepare slots, then the rule-check slots, then the stat
\* slots, the slots of each phase in ascending Order().
C23_SortedPhases ==
    /\ SortedByOrder(statPres) /\ SortedByOrder(ruleChecks) /\ SortedByOrder(stats)
    /\ \A e \in Entered :
          LET L == LogOf(e)
          IN  \A j, k \in EntryCallbacks(e) :
                 j < k =>
                    /\ PhaseOf(L[j].cb) <= PhaseOf(L[k].cb)
                    /\ PhaseOf(L[j].cb) = PhaseOf(L[k].cb) =>
                          /\ L[j].i < L[k].i
                          /\ Order(ListOf(L[j].cb)[L[j].i]) <= Order(ListOf(L[k].cb)[L[k].i])

\* Two prepare slots, two rule-check slots and two stat slots of different
\* orders, all of them called by one entry.
C23_Witness ==
    \E e \in Entered :
        /\ Len(statPres) = 2 /\ Order(statPres[1]) < Order(statPres[2])
        /\ Len(ruleChecks) >= 2 /\ Order(ruleChecks[1]) < Order(ruleChecks[Len(ruleChecks)])
        /\ Len(stats) = 2 /\ Order(stats[1]) < Order(stats[2])
        /\ Cardinality(At(e, "Prepare")) = 2
        /\ Cardinality(At(e, "Check")) = Len(ruleChecks)
        /\ Cardinality(At(e, "OnEntryPassed")) = 2

(***************************************************************************)
(*                     MORE CLAIMS ABOUT THE RING                          *)
(***************************************************************************)
\* C22: a call that finds the slot of its time holding a start later than its
\* own bucket start returns that wrap when sampleCount is 1 and fails with the
\* time-in-the-past error otherwise; either way the ring is left as it was.
C22_SlotAheadLeavesRing ==
    [][\A g \in Goroutines :
          (/\ gs[g].pc = "cmpLt"
           /\ gs'[g] # gs[g]
           /\ gs[g].bucketStart < array[gs[g].idx].BucketStart) =>
              /\ array' = array
              /\ gs'[g].pc = "done"
              /\ IF la.sampleCount = 1
                 THEN /\ gs'[g].err = "none"
                      /\ gs'[g].ret = gs[g].idx
                      /\ gs'[g].retStart = array[gs[g].idx].BucketStart
                 ELSE /\ gs'[g].err = "timeInThePast"
                      /\ gs'[g].ret = -1]_vars

\* One call got the wrap of a ring of one bucket whose start was ahead of it.
C22_Witness ==
    \E g \in Goroutines :
        /\ gs[g].pc = "done"
        /\ gs[g].branch = "past"
        /\ la.sampleCount = 1
        /\ gs[g].ret = gs[g].idx
        /\ gs[g].retStart > gs[g].bucketStart

\* One call on a ring of several buckets failed with the time-in-the-past error.
C22_WitnessError ==
    \E g \in Goroutines :
        /\ gs[g].pc = "done"
        /\ gs[g].branch = "past"
        /\ la.sampleCount > 1
        /\ gs[g].err = "timeInThePast"

\* C26: in every state of a ring, slot i holds a start that is a multiple of
\* bucketLengthInMs and whose bucket number is congruent to i modulo
\* sampleCount, from construction on and after every reset.
C26_SlotHoldsItsOwnBuckets ==
    \A i \in DOMAIN array :
        /\ array[i].BucketStart % la.bucketLengthInMs = 0
        /\ (array[i].BucketStart \div la.bucketLengthInMs) % la.sampleCount = i

\* A ring of three buckets built at a time in its last slot, two of whose
\* slots have since been reset to later buckets.
C26_Witness ==
    /\ la.sampleCount = 3
    /\ \A g \in Goroutines : gs[g].pc = "done" /\ gs[g].branch = "reset"
    /\ gs["g1"].idx = 2 /\ gs["g2"].idx = 0
    /\ array[2].BucketStart > array[1].BucketStart
    /\ array[0].BucketStart > array[2].BucketStart

\* C27: the start held by a slot of the ring never decreases, whatever the
\* interleaving of concurrent calls with different times: a slot reset to a
\* later start is not afterwards reset to an earlier one.
C27_StartsNeverDecrease ==
    [][\A i \in DOMAIN array : array'[i].BucketStart >= array[i].BucketStart]_vars

\* The goroutines that hold the update lock: between TryLock and Unlock.
LockHolders == {g \in Goroutines : gs[g].pc \in {"reset", "unlock"}}

\* C24: with goroutines calling currentBucketOfTime concurrently, a slot is
\* reset only by the one goroutine that holds the update lock, and under fair
\* scheduling every call returns in the end: the loser of the try-lock yields,
\* tries again and does not spin for ever.
C24_ResetUnderLockAndReturn ==
    /\ [](Cardinality(LockHolders) <= 1 /\ (updateLock <=> LockHolders # {}))
    /\ [][array' # array => updateLock /\ \E g \in LockHolders : gs'[g].pc = "unlock"]_vars
    /\ \A g \in Goroutines : [](gs[g].pc \notin {"idle", "done"} => <>(gs[g].pc = "done"))

\* One goroutine is at the try-lock for a stale slot while the other holds the
\* lock and is about to reset the same slot.
C24_Witness ==
    /\ updateLock
    /\ gs["g2"].pc = "reset"
    /\ gs["g1"].pc = "tryLock"
    /\ gs["g1"].idx = gs["g2"].idx
    /\ gs["g1"].bucketStart # gs["g2"].bucketStart

(***************************************************************************)
(*                     CLAIMS ABOUT THE ACCOUNTING                         *)
(***************************************************************************)
\* The entries that api.Entry handed to the caller as passed.
PassedEntries == {e \in Entries : ctxs[e].st = "live"}
BatchOf(e) == IF e \in PassedEntries THEN ctxs[e].batch ELSE 0

\* C12: while none of the N entries that passed on resource A has exited, A's
\* pass counter is the sum of their batch counts (N * batchCount) and A's
\* concurrency counter is N.
C12_PassAccounting ==
    (\A e \in PassedEntries : ctxs[e].exits = 0) =>
        /\ nodes["A"].pass = BatchOf("e1") + BatchOf("e2")
        /\ nodes["A"].concurrency = Cardinality(PassedEntries)

\* The tokens of the entries on resource res that the log of checks records.
RECURSIVE TokensOf(_, _)
TokensOf(log, res) ==
    IF log = <<>> THEN 0
    ELSE (IF Head(log).res = res THEN Head(log).batch ELSE 0) + TokensOf(Tail(log), res)

ZeroRejectRule == <<Controller(Rule("A", 0, "Reject", "CurrentResource", "", 0))>>

\* C13: with a Reject rule of threshold 0 loaded on resource A, every entry on
\* A is blocked: A's pass counter stays 0, its block counter is the sum of the
\* batch counts of the entries (N * batchCount), and its concurrency counter
\* is unchanged.
C13_ZeroThresholdBlocksAll ==
    tcMap["A"] = ZeroRejectRule =>
        /\ \A i \in 1..Len(flowLog) : flowLog[i].res = "A" => flowLog[i].ret = "Blocked"
        /\ nodes["A"].pass = 0
        /\ nodes["A"].block = TokensOf(flowLog, "A")
        /\ nodes["A"].concurrency = 0

\* Two entries on A under the threshold-0 rule, one of them with two tokens.
C13_Witness ==
    /\ tcMap["A"] = ZeroRejectRule
    /\ Len(flowLog) = 2
    /\ \A i \in 1..2 : flowLog[i].res = "A" /\ flowLog[i].ret = "Blocked"
    /\ nodes["A"].block = 3


\* The pass, block and complete counters of a node.
Recorded(node) == <<node.pass, node.block, node.complete>>
Added(before, after) == [i \in 1..3 |-> Recorded(after)[i] - Recorded(before)[i]]

\* C19: whatever an inbound entry adds to the pass, block and complete
\* counters of its resource's own node it adds to those of the inbound node as
\* well, and an outbound entry leaves the inbound node as it was.
C19_InboundMirrorsOwnNode ==
    [][\A e \in Entries :
          ctxs'[e] # ctxs[e] =>
              IF ctxs'[e].flow = "Inbound"
              THEN Added(nodes[InboundNodeName], nodes'[InboundNodeName])
                      = Added(nodes[ctxs'[e].res], nodes'[ctxs'[e].res])
              ELSE nodes'[InboundNodeName] = nodes[InboundNodeName]]_vars

\* C20: the exit of a passed entry adds batchCount to the complete counter of
\* its resource, now - startTime to rt, batchCount to error when (and only
\* when) an error was recorded on the context, takes one from concurrency and
\* leaves pass and block as they were.
C20_CompletionAccounting ==
    [][\A e \in Entries :
          (e \in PassedEntries /\ ctxs[e].exits = 0 /\ ctxs'[e].exits = 1) =>
              LET c == ctxs[e]
                  n == nodes[c.res]
              IN  nodes'[c.res] =
                     [n EXCEPT !.complete = @ + c.batch,
                               !.rt = @ + (clock - c.startTime),
                               !.error = IF c.err THEN @ + c.batch ELSE @,
                               !.concurrency = @ - 1]]_vars

\* The entries handed out as passed that have not exited yet.
LiveEntries == {e \in PassedEntries : ctxs[e].exits = 0}

\* C28: after any sequence of entries, blocks and exits the concurrency
\* counter of a node is the number of entries that passed on it and have not
\* exited yet (for the inbound node: the inbound ones), and is never negative.
C28_ConcurrencyIsLiveEntries ==
    /\ \A n \in NodeNames : nodes[n].concurrency >= 0
    /\ \A r \in Resources :
          nodes[r].concurrency = Cardinality({e \in LiveEntries : ctxs[e].res = r})
    /\ nodes[InboundNodeName].concurrency
          = Cardinality({e \in LiveEntries : ctxs[e].flow = "Inbound"})

\* C29: a Call or a Stream made through the micro client wrapper, with or
\* without outlier mode, leaves the global slot chain with as many rule-check
\* slots and stat slots as it had.
C29_GlobalChainKeepsItsSlots ==
    [][/\ Len(ruleChecks') = Len(ruleChecks)
       /\ Len(stats') = Len(stats)]_vars

\* C30: valuesWithTime(now) and ValuesConditional(now, p) list no bucket
\* that starts after now: a slot still holding a future start from the
\* construction is left out, and every listed bucket has
\* now - intervalInMs <= start <= now.
C30_NoFutureBucketListed ==
    \A k \in 1..Len(rd.ret) :
        /\ rd.ret[k].start <= rd.now
        /\ rd.now - la.intervalInMs <= rd.ret[k].start

\* On a ring no currentBucketOfTime call has touched since it was built, a
\* valuesWithTime call has finished, listed a bucket and left out a slot whose
\* start is ahead of its now.
C30_Witness ==
    /\ \A g \in Goroutines : gs[g].pc = "idle"
    /\ rd.pc = "done"
    /\ rd.fn = "valuesWithTime"
    /\ Len(rd.ret) > 0
    /\ \E i \in DOMAIN array :
          /\ array[i].BucketStart > rd.now
          /\ \A k \in 1..Len(rd.ret) : rd.ret[k].idx # i

(***************************************************************************)
(*                     CLAIMS ABOUT THE FLOW SLOT                          *)
(***************************************************************************)
\* The places of the controllers of a list that are not nil, in list order.
NonNilIndices(tcs) ==
    SelectSeq([i \in 1..Len(tcs) |-> i], LAMBDA i : ~tcs[i].isNil)

\* The first evaluation of a record of Check that came back Blocked, or 0.
FirstBlocked(rec) ==
    IF \E j \in 1..Len(rec.evals) : rec.evals[j].r.status = "Blocked"
    THEN CHOOSE j \in 1..Len(rec.evals) :
            /\ rec.evals[j].r.status = "Blocked"
            /\ \A k \in 1..(j - 1) : rec.evals[k].r.status # "Blocked"
    ELSE 0

\* C14: flow.Slot.Check evaluates the controllers of the resource in the order
\* they were registered and returns the first Blocked result at once: no
\* controller after it is evaluated and no wait is executed for it.
C14_FirstBlockedReturned ==
    \A n \in 1..Len(flowLog) :
        LET rec == flowLog[n]
            order == NonNilIndices(rec.before)
            b == FirstBlocked(rec)
        IN  /\ Len(rec.evals) <= Len(order)
            /\ \A j \in 1..Len(rec.evals) : rec.evals[j].i = order[j]
            /\ IF b > 0
               THEN /\ Len(rec.evals) = b
                    /\ rec.ret = "Blocked"
                    /\ rec.evals[b].slept = 0
               ELSE /\ Len(rec.evals) = Len(order)
                    /\ rec.ret # "Blocked"

\* A check whose first controller blocked while a later one was registered,
\* after a check in which the first let the entry wait and the last blocked.
C14_Witness ==
    /\ Len(flowLog) = 2
    /\ Len(NonNilIndices(flowLog[2].before)) = 2
    /\ Len(flowLog[1].evals) = 2
    /\ flowLog[1].evals[1].slept > 0
    /\ flowLog[1].evals[2].r.status = "Blocked"
    /\ Len(flowLog[2].evals) = 1
    /\ flowLog[2].evals[1].r.status = "Blocked"

\* C15: when a rule-check slot returns ShouldWait to the slot chain, the chain
\* sleeps for the time the result names and then goes on with the next
\* rule-check slot: in the record of what Entry did, a check that returned
\* ShouldWait is followed by a sleep.
C15_ChainSleepsOnShouldWait ==
    \A e \in Entries :
        LET log == ctxs[e].log
        IN  \A i \in 1..Len(log) :
               (log[i].cb = "Check" /\ log[i].out = "ShouldWait") =>
                   /\ i < Len(log)
                   /\ log[i + 1].cb = "Sleep"

\* The waits that the evaluations evals[from..] executed.
RECURSIVE WaitsOf(_, _)
WaitsOf(evals, from) ==
    IF from > Len(evals) THEN 0
    ELSE (IF evals[from].slept > 0 THEN 1 ELSE 0) + WaitsOf(evals, from + 1)

\* The nanoseconds slept in the evaluations evals[from..].
RECURSIVE SleptIn(_, _)
SleptIn(evals, from) ==
    IF from > Len(evals) THEN 0
    ELSE evals[from].slept + SleptIn(evals, from + 1)

\* The batch count of every wait executed for resource res in log[from..].
RECURSIVE WaitedTokens(_, _, _)
WaitedTokens(log, from, res) ==
    IF from > Len(log) THEN 0
    ELSE (IF log[from].res = res THEN log[from].batch * WaitsOf(log[from].evals, 1) ELSE 0)
         + WaitedTokens(log, from + 1, res)

RECURSIVE SleptInLog(_, _)
SleptInLog(log, from) ==
    IF from > Len(log) THEN 0
    ELSE SleptIn(log[from].evals, 1) + SleptInLog(log, from + 1)

\* C16: flow_wait_total of a resource is the sum of the batch counts of the
\* waits executed for it: a ShouldWait result with a positive wait is slept
\* once, for just that long, and counted once with batchCount; a Pass, a
\* Blocked and a ShouldWait result with a zero wait are neither slept nor
\* counted.
C16_WaitCounter ==
    /\ \A res \in Resources : flowWaitCount[res] = WaitedTokens(flowLog, 1, res)
    /\ nano = NanosPerSecond + SleptInLog(flowLog, 1)
    /\ \A n \in 1..Len(flowLog) : \A j \in 1..Len(flowLog[n].evals) :
          LET ev == flowLog[n].evals[j]
          IN  ev.slept = IF ev.r.status = "ShouldWait" THEN ev.r.nanosToWait ELSE 0

\* A check of two tokens that waited twice after a check of one token whose
\* controllers returned a zero wait and a pass.
C16_Witness ==
    /\ Len(flowLog) = 2
    /\ flowLog[1].batch = 1
    /\ Len(flowLog[1].evals) = 2
    /\ flowLog[1].evals[1].r = ResultShouldWait(0)
    /\ flowLog[1].evals[2].r = ResultPass
    /\ flowLog[2].batch = 2
    /\ WaitsOf(flowLog[2].evals, 1) = 2
    /\ flowWaitCount["A"] = 4

\* The checks of entries on resource A made under a single Reject rule with
\* relation strategy AssociatedResource.
AssociatedChecks ==
    {n \in 1..Len(flowLog) :
        /\ flowLog[n].res = "A"
        /\ Len(flowLog[n].before) = 1
        /\ flowLog[n].before[1].rule.ControlBehavior = "Reject"
        /\ flowLog[n].before[1].rule.RelationStrategy = "AssociatedResource"}

\* C17: a rule on resource A with relation strategy AssociatedResource and
\* refResource B is checked against B's node only: an entry on A is blocked
\* exactly when B's passes and the tokens asked for exceed the threshold,
\* whatever A's own counters are, so passes on A alone never make it block.
C17_AssociatedReadsRefNode ==
    \A n \in AssociatedChecks :
        LET rec == flowLog[n]
            rule == rec.before[1].rule
        IN  rec.ret = "Blocked" <=>
               /\ rule.RefResource \in NodeNames
               /\ rec.pass[rule.RefResource] + rec.batch > rule.Threshold

\* A second entry on A passes although A's passes alone have reached the
\* threshold of the rule, B having none.
C17_Witness ==
    /\ Len(flowLog) = 2
    /\ AssociatedChecks = {1, 2}
    /\ flowLog[2].before[1].rule.RefResource = "B"
    /\ flowLog[2].pass["A"] >= flowLog[2].before[1].rule.Threshold
    /\ flowLog[2].pass["B"] = 0
    /\ flowLog[2].ret # "Blocked"
    /\ nodes["A"].pass = 2

\* An entry on A is blocked on B's passes while A has none.
C17_WitnessBlocked ==
    /\ Len(flowLog) = 2
    /\ flowLog[1].res = "B"
    /\ AssociatedChecks = {2}
    /\ flowLog[2].pass["A"] = 0
    /\ flowLog[2].ret = "Blocked"

\* The checks made with a throttling controller in the first place.
ThrottledChecks ==
    {n \in 1..Len(flowLog) :
        /\ Len(flowLog[n].before) >= 1
        /\ flowLog[n].before[1].rule.ControlBehavior = "Throttling"}

\* The controllers of resource A as check n left them.
ControllersAfter(n) ==
    IF \E m \in (n + 1)..Len(flowLog) : flowLog[m].res = flowLog[n].res
    THEN flowLog[CHOOSE m \in (n + 1)..Len(flowLog) :
                    /\ flowLog[m].res = flowLog[n].res
                    /\ \A k \in (n + 1)..(m - 1) : flowLog[k].res # flowLog[n].res].before
    ELSE tcMap[flowLog[n].res]

\* The checks the throttling controller admitted and the time each was let go on.
AdmittedChecks == {n \in ThrottledChecks : flowLog[n].evals[1].r.status # "Blocked"}
PassTime(n) == flowLog[n].at + flowLog[n].evals[1].slept

\* C18: a throttling controller with per-token interval I = 1e9 / threshold
\* passes a call when now >= lastPassedTime + I and sets lastPassedTime to now;
\* blocks it, lastPassedTime unchanged, when the wait would exceed the maximum
\* queueing time; else lets it wait until lastPassedTime + I, which becomes
\* lastPassedTime.  With a single caller the entries it admits are let go at
\* times at least I apart.
C18_ThrottlingSpacing ==
    /\ \A n \in ThrottledChecks :
          LET rec == flowLog[n]
              tc == rec.before[1]
              I == NanosPerSecond \div tc.rule.Threshold
              expected == tc.lastPassedTime + I
              r == rec.evals[1].r
              after == ControllersAfter(n)[1].lastPassedTime
          IN  IF rec.at >= expected
              THEN r = ResultPass /\ after = rec.at
              ELSE IF expected - rec.at > tc.rule.MaxQueueingTimeNs
                   THEN r = ResultBlocked /\ after = tc.lastPassedTime
                   ELSE r = ResultShouldWait(expected - rec.at) /\ after = expected
    /\ \A n \in AdmittedChecks : \A m \in AdmittedChecks :
          n < m => PassTime(m) - PassTime(n)
                      >= NanosPerSecond \div flowLog[n].before[1].rule.Threshold

\* A call that passed, then one that came at once and waited out the interval.
C18_Witness ==
    /\ Len(flowLog) = 2
    /\ AdmittedChecks = {1, 2}
    /\ flowLog[1].evals[1].r = ResultPass
    /\ flowLog[2].evals[1].r.status = "ShouldWait"
    /\ flowLog[2].evals[1].slept > 0
    /\ PassTime(2) - PassTime(1) = NanosPerSecond \div 10

\* A call that came too early to queue was blocked and left lastPassedTime alone.
C18_WitnessBlocked ==
    /\ Len(flowLog) = 2
    /\ ThrottledChecks = {1, 2}
    /\ flowLog[2].evals[1].r = ResultBlocked
    /\ tcMap["A"][1].lastPassedTime = flowLog[2].before[1].lastPassedTime
    /\ tcMap["A"][1].lastPassedTime > 0

====
